---- MODULE Spec2Model ----
(***************************************************************************)
(* Model of the stock analysis pipeline of karmyshunde-sudo/stock_analyse: *)
(* main.py (main, setup_environment), stock_scoring.py (analyze_stock, the *)
(* five sub-analyzers, generate_stock_analysis_report), stock_crawler.py   *)
(* (the provider wrappers and the indicator calculator) and                *)
(* email_sender.py (send_stock_analysis_report).                           *)
(*                                                                         *)
(* Conventions.                                                            *)
(*  - A Python dict is a TLA+ record; d['k'] raises KeyError when k is not *)
(*    in DOMAIN d; d.get(k, v) is Get(d, k, v).  {} is EmptyDict.          *)
(*  - A DataFrame is a sequence of row records (ascending by date); the    *)
(*    empty DataFrame is << >>; its columns are the fields of its rows.    *)
(*  - Prices, percentages and indicator values are fixed-point numbers in  *)
(*    hundredths (10.00 is 1000).  Sub-scores are plain integers.  The     *)
(*    composite score is kept in hundredths.  Money flows are in yuan.     *)
(*  - NaN is the float not-a-number: every ordered comparison with it is   *)
(*    false.  Inf is +infinity.  Bad is a non-numeric value (None):        *)
(*    comparing it with a number raises TypeError.                         *)
(*  - Chinese labels are written in ASCII; the comment next to each use    *)
(*    gives the label of the source.                                       *)
(***************************************************************************)
EXTENDS Integers, Sequences, FiniteSets, TLC

----------------------------------------------------------------------------
(* Bounds of the model *)

\* number of bars of the long sample price histories
HistLen == 52
\* maximal length of a news list in the analyzer specifications
MaxNews == 2

----------------------------------------------------------------------------
(* Floats *)

NaN == -999999
Inf == 999999
Bad == -888888

\* a > b, a < b, a >= b, a <= b on floats: false when either side is NaN
FGt(a, b) == a # NaN /\ b # NaN /\ a > b
FLt(a, b) == a # NaN /\ b # NaN /\ a < b
FGe(a, b) == a # NaN /\ b # NaN /\ a >= b
FLe(a, b) == a # NaN /\ b # NaN /\ a <= b

Min(a, b) == IF a < b THEN a ELSE b
Max(a, b) == IF a > b THEN a ELSE b

\* max(0, min(100, score))
Clamp(score) == Max(0, Min(100, score))

----------------------------------------------------------------------------
(* Dicts *)

EmptyDict == [k \in {} |-> 0]
HasKey(d, k) == k \in DOMAIN d
Get(d, k, default) == IF k \in DOMAIN d THEN d[k] ELSE default
\* bool(d) of a dict: non-empty
Truthy(d) == DOMAIN d # {}

----------------------------------------------------------------------------
(* stock_scoring.py: analyze_technical_indicators *)

\* rsi_status: "overbought" = 超买, "oversold" = 超卖, "normal" = 正常
RsiStatus(rsi_14) ==
    IF FGt(rsi_14, 7000) THEN "overbought"
    ELSE IF FLt(rsi_14, 3000) THEN "oversold"
    ELSE "normal"

\* boll_status: "above_upper" = 突破上轨, "below_lower" = 跌破下轨, "normal" = 正常
BollStatus(current_price, boll_upper, boll_lower) ==
    IF FGt(current_price, boll_upper) THEN "above_upper"
    ELSE IF FLt(current_price, boll_lower) THEN "below_lower"
    ELSE "normal"

\* ma_status: "bullish" = 多头排列, "bearish" = 空头排列, "mixed" = 震荡
MaStatus(ma5, ma10, ma20, ma50) ==
    IF FGt(ma5, ma10) /\ FGt(ma10, ma20) /\ FGt(ma20, ma50) THEN "bullish"
    ELSE IF FLt(ma5, ma10) /\ FLt(ma10, ma20) /\ FLt(ma20, ma50) THEN "bearish"
    ELSE "mixed"

\* macd_status: "golden" = 金叉, "dead" = 死叉, "mixed" = 震荡
MacdStatus(macd, macd_signal, macd_histogram) ==
    IF FGt(macd, macd_signal) /\ FGt(macd_histogram, 0) THEN "golden"
    ELSE IF FLt(macd, macd_signal) /\ FLt(macd_histogram, 0) THEN "dead"
    ELSE "mixed"

\* volume_status: "expanding" = 放量, "contracting" = 缩量, "normal" = 正常
VolumeStatus(volume_change) ==
    IF FGt(volume_change, 5000) THEN "expanding"
    ELSE IF FLt(volume_change, -3000) THEN "contracting"
    ELSE "normal"

\* the momentum bonus with the middle tier's bounds read as exclusive
RsiBonusExclusive(rsi_14) ==
    IF FLe(4000, rsi_14) /\ FLe(rsi_14, 6000) THEN 15
    ELSE IF FLt(3000, rsi_14) /\ FLt(rsi_14, 7000) THEN 10
    ELSE 5

RsiBonus(rsi_14) ==
    IF FLe(4000, rsi_14) /\ FLe(rsi_14, 6000) THEN 15
    ELSE IF FLe(3000, rsi_14) /\ FLe(rsi_14, 7000) THEN 10
    ELSE 5

BollBonus(current_price, boll_upper, boll_lower) ==
    IF FGt(current_price, boll_upper) THEN 5
    ELSE IF FLt(current_price, boll_lower) THEN 15
    ELSE 10

MaBonus(ma_status) ==
    IF ma_status = "bullish" THEN 20 ELSE IF ma_status = "mixed" THEN 10 ELSE 5

MacdBonus(macd_status) ==
    IF macd_status = "golden" THEN 15 ELSE IF macd_status = "mixed" THEN 10 ELSE 5

\* the volume bonus without the 2 points of a contracting volume
VolumeBonusNoFloor(volume_status) ==
    IF volume_status = "expanding" THEN 10
    ELSE IF volume_status = "normal" THEN 5
    ELSE 0

VolumeBonus(volume_status) ==
    IF volume_status = "expanding" THEN 10
    ELSE IF volume_status = "normal" THEN 5
    ELSE 2

\* the clamp of line 249 with a sign slip, removing the upper limit
TechnicalClampNoUpper(score) == Max(0, score)

\* score = max(0, min(100, score)), line 249
TechnicalClamp(score) == Clamp(score)

\* the sum of lines 206-249
TechnicalScore(rsi_14, current_price, boll_upper, boll_lower, ma_status, macd_status, volume_status) ==
    TechnicalClamp(50 + RsiBonus(rsi_14) + BollBonus(current_price, boll_upper, boll_lower)
                   + MaBonus(ma_status) + MacdBonus(macd_status) + VolumeBonus(volume_status))

\* daily_data['close'].iloc[-1] if not daily_data.empty else 0
CurrentPrice(daily_data) ==
    IF daily_data # << >> THEN daily_data[Len(daily_data)].close ELSE 0

analyze_technical_indicators(indicators, daily_data) ==
    IF ~Truthy(indicators) THEN [status |-> "error", message |-> "no_indicators"]
    ELSE
    LET current_price == CurrentPrice(daily_data)
        rsi_14 == Get(indicators, "rsi_14", 5000)
        boll_upper == Get(indicators, "boll_upper", 0)
        boll_middle == Get(indicators, "boll_middle", 0)
        boll_lower == Get(indicators, "boll_lower", 0)
        ma5 == Get(indicators, "ma5", 0)
        ma10 == Get(indicators, "ma10", 0)
        ma20 == Get(indicators, "ma20", 0)
        ma50 == Get(indicators, "ma50", 0)
        macd == Get(indicators, "macd", 0)
        macd_signal == Get(indicators, "macd_signal", 0)
        macd_histogram == Get(indicators, "macd_histogram", 0)
        volume_change == Get(indicators, "volume_change", 0)
        ma_status == MaStatus(ma5, ma10, ma20, ma50)
        macd_status == MacdStatus(macd, macd_signal, macd_histogram)
        volume_status == VolumeStatus(volume_change)
    IN [status |-> "success",
        rsi_14 |-> rsi_14,
        rsi_status |-> RsiStatus(rsi_14),
        rsi_comment |-> "rsi_comment",
        boll_upper |-> boll_upper,
        boll_middle |-> boll_middle,
        boll_lower |-> boll_lower,
        boll_status |-> BollStatus(current_price, boll_upper, boll_lower),
        boll_comment |-> "boll_comment",
        ma5 |-> ma5, ma10 |-> ma10, ma20 |-> ma20, ma50 |-> ma50,
        ma_status |-> ma_status,
        ma_comment |-> "ma_comment",
        resistance1 |-> Get(indicators, "resistance1", 0),
        support1 |-> Get(indicators, "support1", 0),
        recent_high |-> Get(indicators, "recent_high", 0),
        recent_low |-> Get(indicators, "recent_low", 0),
        macd |-> macd, macd_signal |-> macd_signal, macd_histogram |-> macd_histogram,
        macd_status |-> macd_status,
        macd_comment |-> "macd_comment",
        volume_change |-> volume_change,
        volume_status |-> volume_status,
        volume_comment |-> "volume_comment",
        technical_score |-> TechnicalScore(rsi_14, current_price, boll_upper, boll_lower,
                                           ma_status, macd_status, volume_status),
        current_price |-> current_price]

----------------------------------------------------------------------------
(* stock_scoring.py: analyze_fund_flow *)

\* the columns the analyzer reads with df[...] / row[...]; a missing one raises KeyError
FundFlowColumns == {"main_net_inflow", "super_net_inflow", "large_net_inflow",
                    "medium_net_inflow", "small_net_inflow"}

SumSeq(xs) ==
    LET F[i \in 0..Len(xs)] == IF i = 0 THEN 0 ELSE F[i - 1] + xs[i]
    IN F[Len(xs)]

\* the last n elements of a sequence (DataFrame.tail)
Tail_n(xs, n) ==
    IF Len(xs) <= n THEN xs ELSE SubSeq(xs, Len(xs) - n + 1, Len(xs))

\* main_net_inflow / total_amount * 100 if total_amount > 0 else 0, in hundredths of a percent
MainInflowRatio(main_net_inflow, total_amount) ==
    IF total_amount > 0 THEN (main_net_inflow * 10000) \div total_amount ELSE 0

\* the label with a main_net_inflow of zero counted as an inflow
MainFlowStatusZeroInflow(main_net_inflow) ==
    IF main_net_inflow >= 0 THEN "inflow" ELSE "outflow"

\* "inflow" = 净流入, "outflow" = 净流出
MainFlowStatus(main_net_inflow) ==
    IF main_net_inflow > 0 THEN "inflow" ELSE "outflow"

\* the tiers of lines 361-375 with inclusive comparisons
MainFlowBonusInclusive(main_net_inflow, main_inflow_ratio) ==
    IF main_net_inflow > 0
    THEN IF main_inflow_ratio >= 1000 THEN 25
         ELSE IF main_inflow_ratio >= 500 THEN 20
         ELSE 15
    ELSE IF main_inflow_ratio <= -1000 THEN 5
         ELSE IF main_inflow_ratio <= -500 THEN 10
         ELSE 15

\* lines 361-375
MainFlowBonus(main_net_inflow, main_inflow_ratio) ==
    IF main_net_inflow > 0
    THEN IF main_inflow_ratio > 1000 THEN 25
         ELSE IF main_inflow_ratio > 500 THEN 20
         ELSE 15
    ELSE IF main_inflow_ratio < -1000 THEN 5
         ELSE IF main_inflow_ratio < -500 THEN 10
         ELSE 15

InstitutionalBonus(super_net_inflow, large_net_inflow) ==
    IF super_net_inflow > 0 /\ large_net_inflow > 0 THEN 20
    ELSE IF super_net_inflow < 0 /\ large_net_inflow < 0 THEN 5
    ELSE 10

RetailBonus(medium_net_inflow, small_net_inflow) ==
    IF medium_net_inflow > 0 /\ small_net_inflow > 0 THEN 10
    ELSE IF medium_net_inflow < 0 /\ small_net_inflow < 0 THEN 5
    ELSE 7

\* "both_in", "both_out", "split": the three institutional / retail comments
FlowComment(a, b) ==
    IF a > 0 /\ b > 0 THEN "both_in"
    ELSE IF a < 0 /\ b < 0 THEN "both_out"
    ELSE "split"

\* score = max(0, min(100, score)), line 394
FundFlowClamp(score) == Clamp(score)

FundFlowScore(latest_flow, main_inflow_ratio) ==
    FundFlowClamp(50 + MainFlowBonus(latest_flow.main_net_inflow, main_inflow_ratio)
                  + InstitutionalBonus(latest_flow.super_net_inflow, latest_flow.large_net_inflow)
                  + RetailBonus(latest_flow.medium_net_inflow, latest_flow.small_net_inflow))

analyze_fund_flow(fund_flow_data) ==
    IF fund_flow_data = << >> THEN [status |-> "warning", message |-> "no_fund_flow_data"]
    ELSE IF \E i \in 1..Len(fund_flow_data) : ~(FundFlowColumns \subseteq DOMAIN fund_flow_data[i])
    THEN [status |-> "error", message |-> "fund_flow_failed"]
    ELSE
    LET latest_flow == fund_flow_data[Len(fund_flow_data)]
        recent_flow == Tail_n(fund_flow_data, Min(5, Len(fund_flow_data)))
        main_net_inflow == latest_flow.main_net_inflow
        total_amount == Get(latest_flow, "amount", 0)
        main_inflow_ratio == MainInflowRatio(main_net_inflow, total_amount)
    IN [status |-> "success",
        main_net_inflow |-> main_net_inflow,
        main_flow_status |-> MainFlowStatus(main_net_inflow),
        main_flow_comment |-> "main_flow_comment",
        super_net_inflow |-> latest_flow.super_net_inflow,
        large_net_inflow |-> latest_flow.large_net_inflow,
        institutional_flow_comment |-> FlowComment(latest_flow.super_net_inflow, latest_flow.large_net_inflow),
        medium_net_inflow |-> latest_flow.medium_net_inflow,
        small_net_inflow |-> latest_flow.small_net_inflow,
        retail_flow_comment |-> FlowComment(latest_flow.medium_net_inflow, latest_flow.small_net_inflow),
        main_inflow_ratio |-> main_inflow_ratio,
        avg_main_net_inflow_5d |->
            SumSeq([i \in 1..Len(recent_flow) |-> recent_flow[i].main_net_inflow]) \div Len(recent_flow),
        fund_flow_score |-> FundFlowScore(latest_flow, main_inflow_ratio)]

----------------------------------------------------------------------------
(* stock_scoring.py: analyze_market_context *)

\* pd.Series(close).rolling(window=w).mean().iloc[-1]: NaN on fewer than w values
RollingMeanLast(xs, w) ==
    IF Len(xs) < w THEN NaN ELSE SumSeq(Tail_n(xs, w)) \div w

Closes(df) == [i \in 1..Len(df) |-> df[i].close]

\* the trend with equal averages counted as rising
MarketTrendInclusive(sh_ma5, sh_ma20, sz_ma5, sz_ma20) ==
    IF FGe(sh_ma5, sh_ma20) /\ FGe(sz_ma5, sz_ma20) THEN "bull"
    ELSE IF FLt(sh_ma5, sh_ma20) /\ FLt(sz_ma5, sz_ma20) THEN "bear"
    ELSE "mixed"

\* "bull" = 牛市, "bear" = 熊市, "mixed" = 震荡
MarketTrend(sh_ma5, sh_ma20, sz_ma5, sz_ma20) ==
    IF FGt(sh_ma5, sh_ma20) /\ FGt(sz_ma5, sz_ma20) THEN "bull"
    ELSE IF FLt(sh_ma5, sh_ma20) /\ FLt(sz_ma5, sz_ma20) THEN "bear"
    ELSE "mixed"

\* industry_trend is the constant 中性 ("neutral"), lines 466 and 481-486
IndustryBonus(industry_trend) ==
    IF industry_trend = "strong" THEN 15
    ELSE IF industry_trend = "neutral" THEN 10
    ELSE 5

MarketScore(market_trend) ==
    50 + (IF market_trend = "bull" THEN 20 ELSE IF market_trend = "mixed" THEN 10 ELSE 5)
       + IndustryBonus("neutral")

\* a fallback shaped like the no-data results of the other analyzers
MarketFallbackBare == [status |-> "warning", message |-> "no_index_data"]

\* the fallback of lines 433-440: trend 震荡, a comment saying that the index
\* data could not be fetched, and the score 50
MarketFallback ==
    [status |-> "warning", market_trend |-> "mixed",
     market_comment |-> "no_index_data", market_score |-> 50]

\* sh_index, sz_index: what get_stock_index_data returned for 000001 and 399001
analyze_market_context(sh_index, sz_index) ==
    IF sh_index = << >> \/ sz_index = << >>
    THEN MarketFallback
    ELSE IF \E i \in 1..Len(sh_index) : ~HasKey(sh_index[i], "close")
    THEN [status |-> "error", message |-> "market_failed"]
    ELSE IF \E i \in 1..Len(sz_index) : ~HasKey(sz_index[i], "close")
    THEN [status |-> "error", message |-> "market_failed"]
    ELSE
    LET sh_close == Closes(sh_index)
        sz_close == Closes(sz_index)
        market_trend == MarketTrend(RollingMeanLast(sh_close, 5), RollingMeanLast(sh_close, 20),
                                    RollingMeanLast(sz_close, 5), RollingMeanLast(sz_close, 20))
    IN [status |-> "success",
        market_trend |-> market_trend,
        market_comment |-> "market_comment",
        industry_trend |-> "neutral",
        industry_comment |-> "industry_limited",
        market_score |-> MarketScore(market_trend)]

----------------------------------------------------------------------------
(* stock_scoring.py: analyze_financial_data *)

\* "high" = 高速增长, "steady" = 稳健增长, "low" = 低速增长, "negative" = 负增长
GrowthStatus(g) ==
    IF FGt(g, 3000) THEN "high"
    ELSE IF FGt(g, 1500) THEN "steady"
    ELSE IF FGt(g, 0) THEN "low"
    ELSE "negative"

\* "excellent" = 优秀, "good" = 良好, "fair" = 一般, "normal" = 正常 (the initial label)
RoeStatus(roe) ==
    IF FGt(roe, 1500) THEN "excellent"
    ELSE IF FGt(roe, 1000) THEN "good"
    ELSE IF FGt(roe, 500) THEN "fair"
    ELSE "normal"

GrossMarginStatus(gross_margin) ==
    IF FGt(gross_margin, 4000) THEN "excellent"
    ELSE IF FGt(gross_margin, 3000) THEN "good"
    ELSE IF FGt(gross_margin, 2000) THEN "fair"
    ELSE "normal"

\* the profit bonus with the thresholds counted into the upper tier
ProfitBonusInclusive(g) ==
    IF FGe(g, 3000) THEN 20 ELSE IF FGe(g, 1500) THEN 15 ELSE IF FGe(g, 0) THEN 10 ELSE 5

ProfitBonus(g) ==
    IF FGt(g, 3000) THEN 20 ELSE IF FGt(g, 1500) THEN 15 ELSE IF FGt(g, 0) THEN 10 ELSE 5

RevenueBonus(g) ==
    IF FGt(g, 3000) THEN 15 ELSE IF FGt(g, 1500) THEN 10 ELSE IF FGt(g, 0) THEN 5 ELSE 2

RoeBonus(roe) ==
    IF FGt(roe, 1500) THEN 15 ELSE IF FGt(roe, 1000) THEN 10 ELSE IF FGt(roe, 500) THEN 5 ELSE 2

GrossMarginBonus(m) ==
    IF FGt(m, 4000) THEN 10 ELSE IF FGt(m, 3000) THEN 7 ELSE IF FGt(m, 2000) THEN 5 ELSE 3

\* score = max(0, min(100, score)), line 636
FinancialClamp(score) == Clamp(score)

FinancialScore(net_profit_growth, revenue_growth, roe, gross_margin) ==
    FinancialClamp(50 + ProfitBonus(net_profit_growth) + RevenueBonus(revenue_growth)
                   + RoeBonus(roe) + GrossMarginBonus(gross_margin))

analyze_financial_data(financial_data) ==
    IF ~Truthy(financial_data) THEN [status |-> "warning", message |-> "no_financial_data"]
    ELSE
    LET net_profit_growth == Get(financial_data, "net_profit_growth", 0)
        revenue_growth == Get(financial_data, "revenue_growth", 0)
        roe == Get(financial_data, "roe", 0)
        gross_margin == Get(financial_data, "gross_margin", 0)
    IN IF Bad \in {net_profit_growth, revenue_growth, roe, gross_margin}
       THEN [status |-> "error", message |-> "financial_failed"]
       ELSE [status |-> "success",
             eps |-> Get(financial_data, "eps", 0),
             net_profit_growth |-> net_profit_growth,
             profit_growth_status |-> GrowthStatus(net_profit_growth),
             profit_growth_comment |-> "profit_growth_comment",
             revenue_growth |-> revenue_growth,
             revenue_growth_status |-> GrowthStatus(revenue_growth),
             revenue_growth_comment |-> "revenue_growth_comment",
             roe |-> roe,
             roe_status |-> RoeStatus(roe),
             roe_comment |-> "roe_comment",
             gross_margin |-> gross_margin,
             gross_margin_status |-> GrossMarginStatus(gross_margin),
             gross_margin_comment |-> "gross_margin_comment",
             net_margin |-> Get(financial_data, "net_margin", 0),
             financial_score |-> FinancialScore(net_profit_growth, revenue_growth, roe, gross_margin)]

----------------------------------------------------------------------------
(* stock_scoring.py: analyze_news *)

(* A text (title or content) is the set of phrases that occur in it.  The  *)
(* phrases are the keywords of the source, in pinyin, plus "yejiyuzeng"    *)
(* (业绩预增), which contains the keyword "yeji" (业绩) as a substring.    *)
(* str.lower() leaves every keyword (all Chinese) unchanged, so the        *)
(* lower-cased text contains a keyword exactly when the text does.         *)

\* 上涨 增长 利好 增持 回购 业绩 突破 创新高 战略合作 扩张
positive_keywords == {"shangzhang", "zengzhang", "lihao", "zengchi", "huigou", "yeji",
                      "tupo", "chuangxingao", "zhanluehezuo", "kuozhang"}
\* 下跌 亏损 利空 减持 诉讼 监管 处罚 风险 违约 暂停
negative_keywords == {"xiadie", "kuisun", "likong", "jianchi", "susong", "jianguan",
                      "chufa", "fengxian", "weiyue", "zanting"}
\* 回购 增持 战略合作 业绩预增, line 721
bullish_event_keywords == {"huigou", "zengchi", "zhanluehezuo", "yejiyuzeng"}
\* 减持 诉讼 监管 处罚, line 723
bearish_event_keywords == {"jianchi", "susong", "jianguan", "chufa"}
\* 回购 增持, line 740
bonus_keywords == {"huigou", "zengchi"}
\* 减持 诉讼, line 742
penalty_keywords == {"jianchi", "susong"}

\* a content that is not a string (NaN of a missing cell): .lower() raises
NoText == {"<nan>"}

\* kw is a substring of phrase
SubstringOf(kw, phrase) ==
    kw = phrase \/ (kw = "yeji" /\ phrase = "yejiyuzeng")

\* keyword in text
Contains(text, kw) == \E phrase \in text : SubstringOf(kw, phrase)

ContainsAny(text, kws) == \E kw \in kws : Contains(text, kw)

\* any(keyword in content or keyword in title for keyword in positive_keywords)
IsPositive(news) == ContainsAny(news.content, positive_keywords) \/ ContainsAny(news.title, positive_keywords)
IsNegative(news) == ContainsAny(news.content, negative_keywords) \/ ContainsAny(news.title, negative_keywords)

\* the classification of lines 693-698 with the tie-break dropped: an item
\* matching both lists is counted by the first test that matches
SentimentOfFirstMatch(news) ==
    IF IsPositive(news) THEN "positive"
    ELSE IF IsNegative(news) THEN "negative"
    ELSE "neutral"

\* lines 693-698
SentimentOf(news) ==
    IF IsPositive(news) /\ ~IsNegative(news) THEN "positive"
    ELSE IF IsNegative(news) /\ ~IsPositive(news) THEN "negative"
    ELSE "neutral"

\* the counters with two independent tests instead of the if / elif / else of
\* lines 693-698: an item matching both keyword lists is counted twice
CountOfIndependent(news_data, label) ==
    Cardinality({i \in 1..Len(news_data) :
        \/ label = "positive" /\ IsPositive(news_data[i])
        \/ label = "negative" /\ IsNegative(news_data[i])
        \/ label = "neutral" /\ ~IsPositive(news_data[i]) /\ ~IsNegative(news_data[i])})

CountOf(news_data, label) ==
    Cardinality({i \in 1..Len(news_data) : SentimentOf(news_data[i]) = label})

\* count / total_news * 100 if total_news > 0 else 0, in hundredths of a percent
Ratio(count, total_news) ==
    IF total_news > 0 THEN (count * 10000) \div total_news ELSE 0

\* the overall sentiment with a ratio of exactly 60 counted as above 60
NewsSentimentInclusive(positive_ratio, negative_ratio) ==
    IF positive_ratio >= 6000 THEN "positive"
    ELSE IF negative_ratio >= 6000 THEN "negative"
    ELSE "neutral"

\* "positive" = 积极, "negative" = 消极, "neutral" = 中性
NewsSentiment(positive_ratio, negative_ratio) ==
    IF positive_ratio > 6000 THEN "positive"
    ELSE IF negative_ratio > 6000 THEN "negative"
    ELSE "neutral"

\* lines 719-724
IsMajorEvent(title) ==
    ContainsAny(title, bullish_event_keywords) \/ ContainsAny(title, bearish_event_keywords)

RECURSIVE MajorEvents(_)
MajorEvents(news_data) ==
    IF news_data = << >> THEN << >>
    ELSE LET title == Head(news_data).title
         IN (IF IsMajorEvent(title) THEN << title >> ELSE << >>) \o MajorEvents(Tail(news_data))

SentimentBonus(positive_ratio) ==
    IF positive_ratio > 6000 THEN 20
    ELSE IF positive_ratio > 4000 THEN 15
    ELSE IF positive_ratio > 3000 THEN 10
    ELSE 5

\* any("回购" in event or "增持" in event for event in major_events)
EventBonus(major_events) ==
    IF \E i \in 1..Len(major_events) : ContainsAny(major_events[i], bonus_keywords) THEN 10 ELSE 0

\* any("减持" in event or "诉讼" in event for event in major_events)
EventPenalty(major_events) ==
    IF \E i \in 1..Len(major_events) : ContainsAny(major_events[i], penalty_keywords) THEN 5 ELSE 0

\* lines 727-746
NewsScore(positive_ratio, major_events) ==
    Clamp(50 + SentimentBonus(positive_ratio) + EventBonus(major_events) - EventPenalty(major_events))

analyze_news(news_data) ==
    IF news_data = << >> THEN [status |-> "warning", message |-> "no_news_data"]
    ELSE IF \E i \in 1..Len(news_data) : news_data[i].content = NoText
    THEN [status |-> "error", message |-> "news_failed"]
    ELSE
    LET positive_count == CountOf(news_data, "positive")
        negative_count == CountOf(news_data, "negative")
        neutral_count == CountOf(news_data, "neutral")
        total_news == Len(news_data)
        positive_ratio == Ratio(positive_count, total_news)
        negative_ratio == Ratio(negative_count, total_news)
        major_events == MajorEvents(news_data)
    IN [status |-> "success",
        positive_count |-> positive_count,
        negative_count |-> negative_count,
        neutral_count |-> neutral_count,
        positive_ratio |-> positive_ratio,
        negative_ratio |-> negative_ratio,
        news_sentiment |-> NewsSentiment(positive_ratio, negative_ratio),
        news_comment |-> "news_comment",
        major_events |-> major_events,
        news_score |-> NewsScore(positive_ratio, major_events)]

----------------------------------------------------------------------------
(* stock_scoring.py: generate_stock_analysis_report *)

(* A report is a sequence of line records, one per "report +=" statement   *)
(* that writes text (blank separators are left out); tag names the line.   *)
(* Headings: h1_technical = 一、核心技术指标状态, h2_fund_volume =          *)
(* 二、资金与量能验证, h3_levels = 三、关键压力与支撑位, h4_financial =     *)
(* 四、财务状况分析, h5_market = 五、市场环境分析, h6_news =                *)
(* 六、新闻舆情分析, h7_conclusion = 七、结论与操作建议, table_title =      *)
(* 近期交易明细补充（最近5个交易日）, table_overview = 一、每日交易数据概览,*)
(* events_impact = 二、重要事件影响, advice_update = 三、操作建议更新,      *)
(* disclaimer = the closing (注：...) line.  The string returned when the   *)
(* composer catches an exception (【股票分析报告生成错误】...) is the       *)
(* one-line report << [tag |-> "generation_error", ...] >>.                *)

\* the subscript reads d['k'] of lines 794-844, in the order they are evaluated
ReportReads ==
    << <<"basic_info", "stock_name">>, <<"realtime_data", "date">>,
       <<"technical", "rsi_status">>, <<"technical", "rsi_14">>, <<"technical", "rsi_comment">>,
       <<"technical", "boll_status">>, <<"technical", "current_price">>, <<"technical", "boll_comment">>,
       <<"technical", "ma_status">>, <<"technical", "ma_comment">>,
       <<"fund_flow", "main_flow_status">>, <<"fund_flow", "main_flow_comment">>,
       <<"fund_flow", "institutional_flow_comment">>,
       <<"technical", "volume_status">>, <<"technical", "volume_comment">>,
       <<"technical", "resistance1">>, <<"technical", "support1">>,
       <<"financial", "profit_growth_status">>, <<"financial", "profit_growth_comment">>,
       <<"financial", "roe">>, <<"financial", "roe_comment">>,
       <<"market", "market_trend">>, <<"market", "market_comment">>,
       <<"news", "news_sentiment">>, <<"news", "news_comment">> >>

\* the indices of the reads that raise KeyError
MissingReads(args) ==
    {i \in 1..Len(ReportReads) : ~HasKey(args[ReportReads[i][1]], ReportReads[i][2])}

\* the sum of lines 864-870 with the weights of the first two terms exchanged
OverallScoreSwapped(technical_score, fund_flow_score, financial_score, news_score, market_score) ==
    technical_score * 25 + fund_flow_score * 30 + financial_score * 20
    + news_score * 15 + market_score * 10

\* technical_score * 0.3 + fund_flow_score * 0.25 + financial_score * 0.2
\* + news_score * 0.15 + market_score * 0.1, in hundredths
OverallScore(technical_score, fund_flow_score, financial_score, news_score, market_score) ==
    technical_score * 30 + fund_flow_score * 25 + financial_score * 20
    + news_score * 15 + market_score * 10

\* the comparisons of lines 873-884 made strict
ConclusionStrict(overall_score) ==
    IF overall_score > 8000 THEN "strong_buy"
    ELSE IF overall_score > 6500 THEN "buy"
    ELSE IF overall_score > 5000 THEN "neutral"
    ELSE "caution"

\* "strong_buy" = 强烈推荐, "buy" = 推荐, "neutral" = 中性, "caution" = 谨慎
Conclusion(overall_score) ==
    IF overall_score >= 8000 THEN "strong_buy"
    ELSE IF overall_score >= 6500 THEN "buy"
    ELSE IF overall_score >= 5000 THEN "neutral"
    ELSE "caution"

\* every major event as a bullet line, without the cut after the third
EventLinesAll(major_events) ==
    [i \in 1..Len(major_events) |-> [tag |-> "event", title |-> major_events[i]]]

\* major_events[:3] as bullet lines
EventLines(major_events) ==
    [i \in 1..Min(3, Len(major_events)) |-> [tag |-> "event", title |-> major_events[i]]]

\* lines 890-895
ShortTermAdvice(technical_analysis) ==
    IF technical_analysis.rsi_status = "overbought" /\ technical_analysis.boll_status = "above_upper"
    THEN "reduce"
    ELSE IF technical_analysis.rsi_status = "oversold" /\ technical_analysis.boll_status = "below_lower"
    THEN "accumulate"
    ELSE "hold"

\* lines 794-911: the report up to the header of the trading-days table
ReportHead(args) ==
    LET technical_analysis == args.technical
        fund_flow_analysis == args.fund_flow
        financial_analysis == args.financial
        market_context_analysis == args.market
        news_analysis == args.news
        major_events == Get(news_analysis, "major_events", << >>)
        overall_score == OverallScore(Get(technical_analysis, "technical_score", 50),
                                      Get(fund_flow_analysis, "fund_flow_score", 50),
                                      Get(financial_analysis, "financial_score", 50),
                                      Get(news_analysis, "news_score", 50),
                                      Get(market_context_analysis, "market_score", 50))
    IN << [tag |-> "title", stock_name |-> args.basic_info.stock_name, date |-> args.realtime_data.date],
          [tag |-> "h1_technical"],
          [tag |-> "rsi", status |-> technical_analysis.rsi_status, value |-> technical_analysis.rsi_14],
          [tag |-> "boll", status |-> technical_analysis.boll_status, price |-> technical_analysis.current_price],
          [tag |-> "ma", status |-> technical_analysis.ma_status],
          [tag |-> "h2_fund_volume"],
          [tag |-> "main_flow", status |-> fund_flow_analysis.main_flow_status],
          [tag |-> "institutional_flow", comment |-> fund_flow_analysis.institutional_flow_comment],
          [tag |-> "volume", status |-> technical_analysis.volume_status],
          [tag |-> "h3_levels"],
          [tag |-> "resistance", value |-> technical_analysis.resistance1],
          [tag |-> "support", value |-> technical_analysis.support1],
          [tag |-> "h4_financial"],
          [tag |-> "profitability", status |-> financial_analysis.profit_growth_status],
          [tag |-> "financial_health", roe |-> financial_analysis.roe],
          [tag |-> "h5_market"],
          [tag |-> "market_trend", trend |-> market_context_analysis.market_trend],
          [tag |-> "h6_news"],
          [tag |-> "news_sentiment", sentiment |-> news_analysis.news_sentiment] >>
       \o (IF major_events # << >> THEN << [tag |-> "recent_events"] >> \o EventLines(major_events)
           ELSE << >>)
       \o << [tag |-> "h7_conclusion"],
             [tag |-> "score", overall_score |-> overall_score, conclusion |-> Conclusion(overall_score)],
             [tag |-> "short_term", advice |-> ShortTermAdvice(technical_analysis)],
             [tag |-> "mid_term", ma_status |-> technical_analysis.ma_status],
             [tag |-> "risk_note", support |-> technical_analysis.support1],
             [tag |-> "table_title"],
             [tag |-> "table_overview"],
             [tag |-> "table_header"] >>

\* insert a row into a list sorted by date (descending when desc, else ascending)
RECURSIVE InsertByDate(_, _, _)
InsertByDate(row, sorted, desc) ==
    IF sorted = << >> THEN << row >>
    ELSE IF (desc /\ row.date > Head(sorted).date) \/ (~desc /\ row.date < Head(sorted).date)
    THEN << row >> \o sorted
    ELSE << Head(sorted) >> \o InsertByDate(row, Tail(sorted), desc)

\* df.sort_values('date', ascending = ~desc)
RECURSIVE SortByDate(_, _)
SortByDate(df, desc) ==
    IF df = << >> THEN << >>
    ELSE InsertByDate(Head(df), SortByDate(Tail(df), desc), desc)

\* the rows of fund_flow_data whose date equals d, lines 932-934
MatchingFlows(fund_flow_data, d) == SelectSeq(fund_flow_data, LAMBDA r : r.date = d)

\* the table reads iloc[0]['main_net_inflow'] of a matching row: KeyError when the column is missing
TableRaises(daily_data, fund_flow_data) ==
    \E i \in 1..Len(Tail_n(daily_data, 5)) :
        LET m == MatchingFlows(fund_flow_data, Tail_n(daily_data, 5)[i].date)
        IN m # << >> /\ ~HasKey(m[1], "main_net_inflow")

\* main_net_inflow / 10000, in hundredths of 10k yuan; 0 without a matching row
RowFundFlow(fund_flow_data, d) ==
    LET m == MatchingFlows(fund_flow_data, d)
    IN IF m # << >> THEN m[1].main_net_inflow \div 100 ELSE 0

\* the table without the descending re-sort of line 919
TableLinesAscending(daily_data, fund_flow_data) ==
    IF daily_data # << >>
    THEN LET rows == Tail_n(daily_data, 5)
         IN [i \in 1..Len(rows) |->
                [tag |-> "row", date |-> rows[i].date, close |-> rows[i].close,
                 volume |-> rows[i].volume,
                 fund_flow |-> RowFundFlow(fund_flow_data, rows[i].date)]]
    ELSE << [tag |-> "no_recent_data"] >>

\* lines 917-938
TableLines(daily_data, fund_flow_data) ==
    IF daily_data # << >>
    THEN LET rows == SortByDate(Tail_n(daily_data, 5), TRUE)
         IN [i \in 1..Len(rows) |->
                [tag |-> "row", date |-> rows[i].date, close |-> rows[i].close,
                 volume |-> rows[i].volume,
                 fund_flow |-> RowFundFlow(fund_flow_data, rows[i].date)]]
    ELSE << [tag |-> "no_recent_data"] >>

\* lines 942-958
ReportTail(args) ==
    LET major_events == Get(args.news, "major_events", << >>)
    IN (IF major_events # << >> THEN << [tag |-> "events_impact"] >> \o EventLines(major_events)
        ELSE << >>)
       \o << [tag |-> "advice_update"],
             [tag |-> "key_levels", resistance |-> args.technical.resistance1,
              support |-> args.technical.support1],
             [tag |-> "disclaimer"] >>

\* the string returned by the except clause, lines 962-965
GenerationError(what) == << [tag |-> "generation_error", message |-> what] >>

IsGenerationError(report) == Len(report) = 1 /\ report[1].tag = "generation_error"

----------------------------------------------------------------------------
(* stock_crawler.py: the provider wrappers *)

(* A provider answer is a record [raised, data]: raised when the akshare   *)
(* call (or the processing of its result) raised an exception, else data   *)
(* is what it returned.  Every wrapper catches the exception and returns   *)
(* its empty value.                                                        *)

\* get_stock_basic_info, lines 31-71: data is [found, stock_name]
get_stock_basic_info(answer) ==
    IF answer.raised \/ ~answer.data.found THEN EmptyDict
    ELSE [stock_code |-> "code", stock_name |-> answer.data.stock_name]

\* get_stock_realtime_data, lines 146-183: data is [found, current_price, date]
get_stock_realtime_data(answer) ==
    IF answer.raised \/ ~answer.data.found THEN EmptyDict
    ELSE [stock_code |-> "code", current_price |-> answer.data.current_price,
          date |-> answer.data.date]

\* the rows of the provider's history that fall in the queried window [now - days, now]
InWindow(df, now, days) == SelectSeq(df, LAMBDA r : r.date >= now - days /\ r.date <= now)

\* get_stock_daily_data, lines 84-134: data is the provider's history
get_stock_daily_data(answer, now, days) ==
    IF answer.raised THEN << >>
    ELSE SortByDate(InWindow(answer.data, now, days), FALSE)

\* get_fund_flow_data, lines 290-329: the days argument is not used
get_fund_flow_data(answer) ==
    IF answer.raised THEN << >>
    ELSE SortByDate(answer.data, FALSE)

\* get_financial_data, lines 341-370: data is the dict built from the first row, or {}
get_financial_data(answer) ==
    IF answer.raised THEN EmptyDict ELSE answer.data

\* sort by publish_time, newest first
RECURSIVE InsertByTime(_, _)
InsertByTime(row, sorted) ==
    IF sorted = << >> THEN << row >>
    ELSE IF row.publish_time > Head(sorted).publish_time THEN << row >> \o sorted
    ELSE << Head(sorted) >> \o InsertByTime(row, Tail(sorted))

RECURSIVE SortByTimeDesc(_)
SortByTimeDesc(news) ==
    IF news = << >> THEN << >>
    ELSE InsertByTime(Head(news), SortByTimeDesc(Tail(news)))

\* get_stock_news, lines 420-469: basic_info is the result of its own get_stock_basic_info call
get_stock_news(basic_info, answer, now, days) ==
    IF Get(basic_info, "stock_name", "") = "" THEN << >>
    ELSE IF answer.raised THEN << >>
    ELSE SortByTimeDesc(SelectSeq(answer.data, LAMBDA r : r.publish_time >= now - days))

\* get_stock_index_data, lines 501-542
get_stock_index_data(answer) ==
    IF answer.raised THEN << >>
    ELSE SortByDate(answer.data, FALSE)

----------------------------------------------------------------------------
(* stock_crawler.py: get_technical_indicators (the indicator calculator) *)

\* floor of the square root
RECURSIVE ISqrtIn(_, _, _)
ISqrtIn(v, lo, hi) ==
    IF lo >= hi THEN lo
    ELSE LET mid == (lo + hi + 1) \div 2
         IN IF mid * mid <= v THEN ISqrtIn(v, mid, hi) ELSE ISqrtIn(v, lo, mid - 1)

ISqrt(v) == ISqrtIn(v, 0, Min(v, 40000))

\* delta = close.diff(); gain = delta.where(delta > 0, 0); the first delta is NaN, hence gain 0
Gains(close) ==
    [i \in 1..Len(close) |-> IF i > 1 /\ close[i] - close[i - 1] > 0 THEN close[i] - close[i - 1] ELSE 0]

\* loss = -delta.where(delta < 0, 0)
Losses(close) ==
    [i \in 1..Len(close) |-> IF i > 1 /\ close[i] - close[i - 1] < 0 THEN close[i - 1] - close[i] ELSE 0]

\* rs = avg_gain / avg_loss; rsi = 100 - 100 / (1 + rs), last value, in hundredths.
\* 0 / 0 is NaN; x / 0 for x > 0 is inf and gives rsi = 100.
Rsi14(close) ==
    IF Len(close) < 14 THEN NaN
    ELSE LET g == SumSeq(Tail_n(Gains(close), 14))
             l == SumSeq(Tail_n(Losses(close), 14))
         IN IF l = 0 THEN (IF g = 0 THEN NaN ELSE 10000)
            ELSE 10000 - (10000 * l) \div (g + l)

\* fixed-point unit of the exponential averages: 1/1000 of a hundredth
EmaScale == 1000

\* Series.ewm(span, adjust=False).mean(): y1 = x1, yt = (1 - a) y(t-1) + a xt with a = 2 / (span + 1)
Ewm(xs, span) ==
    LET Y[i \in 1..Len(xs)] ==
            IF i = 1 THEN xs[1]
            ELSE ((span - 1) * Y[i - 1] + 2 * xs[i]) \div (span + 1)
    IN [i \in 1..Len(xs) |-> Y[i]]

\* macd = ema12 - ema26 as a series, in units of 1 / (100 * EmaScale)
MacdSeries(close) ==
    LET xs == [i \in 1..Len(close) |-> close[i] * EmaScale]
        ema12 == Ewm(xs, 12)
        ema26 == Ewm(xs, 26)
    IN [i \in 1..Len(close) |-> ema12[i] - ema26[i]]

\* 2 * std20 (sample standard deviation, ddof = 1) of the last 20 values, rounded down; NaN on fewer
TwoStd20(close) ==
    IF Len(close) < 20 THEN NaN
    ELSE LET w == Tail_n(close, 20)
             d == [i \in 1..20 |-> w[i] - w[1]]
             sd == SumSeq(d)
             sq == SumSeq([i \in 1..20 |-> d[i] * d[i]])
         IN ISqrt((4 * (20 * sq - sd * sd)) \div (20 * 19))

FAdd(a, b) == IF a = NaN \/ b = NaN THEN NaN ELSE a + b
FSub(a, b) == IF a = NaN \/ b = NaN THEN NaN ELSE a - b

\* the least element of a non-empty set of integers
MinOf2(S) == CHOOSE m \in S : \A x \in S : m <= x

MaxOf(xs) == CHOOSE m \in {xs[i] : i \in 1..Len(xs)} : \A i \in 1..Len(xs) : xs[i] <= m
MinOf(xs) == CHOOSE m \in {xs[i] : i \in 1..Len(xs)} : \A i \in 1..Len(xs) : xs[i] >= m

\* (volume.iloc[-1] / volume_ma5.iloc[-1] - 1) * 100, in hundredths of a percent
VolumeChange(volume) ==
    IF Len(volume) < 5 THEN NaN
    ELSE LET s5 == SumSeq(Tail_n(volume, 5))
             last == volume[Len(volume)]
         IN IF s5 = 0 THEN NaN ELSE ((5 * last - s5) * 10000) \div s5

\* lines 196-277; df is the result of the calculator's own get_stock_daily_data call
get_technical_indicators(df) ==
    IF df = << >> THEN EmptyDict
    ELSE
    LET close == Closes(df)
        volume == [i \in 1..Len(df) |-> df[i].volume]
        macd == MacdSeries(close)
        signal == Ewm(macd, 9)
        n == Len(df)
        sma20 == RollingMeanLast(close, 20)
        recent_high == MaxOf([i \in 1..Len(Tail_n(df, 20)) |-> Tail_n(df, 20)[i].high])
        recent_low == MinOf([i \in 1..Len(Tail_n(df, 20)) |-> Tail_n(df, 20)[i].low])
        pivot2 == (2 * (recent_high + recent_low + close[n])) \div 3
    IN [rsi_14 |-> Rsi14(close),
        macd |-> macd[n],
        macd_signal |-> signal[n],
        macd_histogram |-> macd[n] - signal[n],
        boll_upper |-> FAdd(sma20, TwoStd20(close)),
        boll_middle |-> sma20,
        boll_lower |-> FSub(sma20, TwoStd20(close)),
        ma5 |-> RollingMeanLast(close, 5),
        ma10 |-> RollingMeanLast(close, 10),
        ma20 |-> sma20,
        ma50 |-> RollingMeanLast(close, 50),
        volume_ma5 |-> RollingMeanLast(volume, 5),
        volume_ma10 |-> RollingMeanLast(volume, 10),
        volume_change |-> VolumeChange(volume),
        resistance1 |-> pivot2 - recent_low,
        support1 |-> pivot2 - recent_high,
        recent_high |-> recent_high,
        recent_low |-> recent_low]

----------------------------------------------------------------------------
(* What the external collaborators may answer *)

\* the day of the run; the sample histories end on it
Today == HistLen

Answers(dataSet, none) ==
    {[raised |-> TRUE, data |-> none]} \cup {[raised |-> FALSE, data |-> d] : d \in dataSet}

Bar(d, c, v) ==
    [date |-> d, close |-> c * 100, high |-> c * 100 + 50, low |-> c * 100 - 50, volume |-> v]

\* closes all equal to 10.00
FlatHist == [i \in 1..HistLen |-> Bar(i, 10, 100)]
\* one yuan up every day, the last bar on heavy volume
RiseHist == [i \in 1..HistLen |-> Bar(i, 10 + i, IF i = HistLen THEN 400 ELSE 100)]
\* one yuan down every day, the last bar on thin volume
FallHist == [i \in 1..HistLen |-> Bar(i, 10 + HistLen - i, IF i = HistLen THEN 10 ELSE 100)]
\* three bars, delivered newest first
ShortHist == << Bar(Today, 12, 100), Bar(Today - 1, 11, 100), Bar(Today - 2, 10, 100) >>

DailyHistories == {<< >>, FlatHist, RiseHist, ShortHist}
DailyAnswers == Answers(DailyHistories, << >>)

BasicAnswers ==
    Answers({[found |-> FALSE, stock_name |-> ""], [found |-> TRUE, stock_name |-> "ACME"]},
            [found |-> FALSE, stock_name |-> ""])

RealtimeAnswers ==
    Answers({[found |-> FALSE, current_price |-> 0, date |-> ""],
             [found |-> TRUE, current_price |-> 1000, date |-> "today"]},
            [found |-> FALSE, current_price |-> 0, date |-> ""])

FlowRow(d, main, inst, retail) ==
    [date |-> d, main_net_inflow |-> main, super_net_inflow |-> inst, large_net_inflow |-> inst,
     medium_net_inflow |-> retail, small_net_inflow |-> retail]

\* the same row with a total-amount column
WithAmount(row, amount) ==
    [k \in DOMAIN row \cup {"amount"} |-> IF k = "amount" THEN amount ELSE row[k]]

\* a row of a table that lacks the main_net_inflow column
FlowRowNoMain(d) ==
    [date |-> d, super_net_inflow |-> 1, large_net_inflow |-> 1,
     medium_net_inflow |-> 1, small_net_inflow |-> 1]

FundFlowHistories ==
    {<< >>,
     << WithAmount(FlowRow(Today, 100000, 5000, -300), 1000000),
        WithAmount(FlowRow(Today - 1, -20000, -100, 200), 1000000) >>,
     << FlowRow(Today - 3, -500000, -4000, -700) >>,
     << FlowRowNoMain(Today) >>}
FundFlowAnswers == Answers(FundFlowHistories, << >>)

FinancialDicts ==
    {EmptyDict,
     [eps |-> 120, net_profit_growth |-> 3500, revenue_growth |-> 1500, roe |-> 1600,
      gross_margin |-> 4100, net_margin |-> 1000],
     [eps |-> -5, net_profit_growth |-> -1000, revenue_growth |-> NaN, roe |-> 300,
      gross_margin |-> 2000, net_margin |-> -200],
     [eps |-> 0, net_profit_growth |-> Bad, revenue_growth |-> 500, roe |-> 700,
      gross_margin |-> 2500, net_margin |-> 100]}
FinancialAnswers == Answers(FinancialDicts, EmptyDict)

NewsRow(t, title, content) == [publish_time |-> t, title |-> title, content |-> content]

NewsLists ==
    {<< >>,
     << NewsRow(Today - 2, {"huigou"}, {"shangzhang"}),
        NewsRow(Today - 1, {"jianguan"}, {"xiadie"}),
        NewsRow(Today - 30, {"jianchi"}, {"kuisun"}) >>,
     << NewsRow(Today - 1, {"zengchi", "jianchi"}, {"other"}) >>,
     << NewsRow(Today, {"other"}, NoText) >>}
NewsAnswers == Answers(NewsLists, << >>)

IndexRow(d, c) == [date |-> d, close |-> c * 100]

\* twenty closes, one point up every day
RisingIndex == [i \in 1..20 |-> IndexRow(i, 3000 + i)]

IndexHistories ==
    {<< >>,
     RisingIndex,
     [i \in 1..20 |-> IndexRow(i, 3000 - i)],
     [i \in 1..4 |-> IndexRow(i, 3000)],
     << [date |-> 1] >>}
IndexAnswers == Answers(IndexHistories, << >>)

\* Config.MAIL_SERVER, MAIL_USERNAME, MAIL_PASSWORD, MAIL_TO as read from the environment
Configs ==
    [MAIL_SERVER : {"", "smtp.qq.com"}, MAIL_USERNAME : {"", "user"},
     MAIL_PASSWORD : {"", "secret"}, MAIL_TO : {"", " ", "a@qq.com"}]

----------------------------------------------------------------------------
(* The run of main(stock_code): state *)

VARIABLES
    pc,                        \* the statement main / analyze_stock is at
    config,                    \* the Config class attributes
    basic_info,                \* locals of analyze_stock
    realtime_data,
    daily_data,
    technical_indicators,
    fund_flow_data,
    financial_data,
    news_data,
    technical_analysis,
    fund_flow_analysis,
    market_context_analysis,
    financial_analysis,
    news_analysis,
    report,                    \* the report under construction / returned by the composer
    analysis_result,           \* what analyze_stock returned
    send_success,              \* what send_stock_analysis_report returned
    result,                    \* what main returned
    calls,                     \* the calls made so far, in order
    probe                      \* argument and value of a function applied on its own

vars == << pc, config, basic_info, realtime_data, daily_data, technical_indicators,
           fund_flow_data, financial_data, news_data, technical_analysis,
           fund_flow_analysis, market_context_analysis, financial_analysis,
           news_analysis, report, analysis_result, send_success, result, calls, probe >>

\* a local that has not been assigned yet
None == [status |-> "none"]

data_vars == << basic_info, realtime_data, daily_data, technical_indicators,
                fund_flow_data, financial_data, news_data >>
analysis_vars == << technical_analysis, fund_flow_analysis, market_context_analysis,
                    financial_analysis, news_analysis >>

\* the locals before the run
Unassigned ==
    /\ basic_info = EmptyDict
    /\ realtime_data = EmptyDict
    /\ daily_data = << >>
    /\ technical_indicators = EmptyDict
    /\ fund_flow_data = << >>
    /\ financial_data = EmptyDict
    /\ news_data = << >>
    /\ technical_analysis = None
    /\ fund_flow_analysis = None
    /\ market_context_analysis = None
    /\ financial_analysis = None
    /\ news_analysis = None
    /\ report = << >>
    /\ analysis_result = None
    /\ send_success = FALSE
    /\ result = None
    /\ calls = << >>

Init ==
    /\ pc = "main"
    /\ config \in Configs
    /\ Unassigned
    /\ probe = None

----------------------------------------------------------------------------
(* main.py: main and setup_environment *)

\* an error result without the stock code, as the error dicts of analyze_stock are built
ErrorResultNoCode(message) == [status |-> "error", message |-> message]

\* {"status": "error", "stock_code": stock_code, "message": error_msg}, lines 75, 85 and 108-111
ErrorResult(message) == [status |-> "error", stock_code |-> "code", message |-> message]

\* the result of the except clause, lines 108-113: the error result plus a timestamp
ExceptResult(message) ==
    [k \in DOMAIN ErrorResult(message) \cup {"timestamp"} |->
        IF k = "timestamp" THEN "now" ELSE ErrorResult(message)[k]]

\* main, lines 62-69 and the except clause of lines 105-113: an unexpected
\* exception in the try block is turned into an "error" result
MainStart ==
    /\ pc = "main"
    /\ \E unexpected \in BOOLEAN :
        IF unexpected
        THEN /\ result' = ExceptResult("main_failed")
             /\ pc' = "done"
        ELSE /\ pc' = "setup_environment"
             /\ UNCHANGED result
    /\ UNCHANGED << probe, config, data_vars, analysis_vars, report, analysis_result, send_success, calls >>

\* setup_environment without the mail configuration check of lines 132-135
setup_environmentNoMailCheck(makedirs_ok) == makedirs_ok

\* setup_environment, lines 122-145: makedirs_ok is whether os.makedirs succeeded
setup_environment(makedirs_ok) ==
    IF ~makedirs_ok THEN FALSE
    ELSE IF config.MAIL_SERVER = "" \/ config.MAIL_USERNAME = "" \/ config.MAIL_PASSWORD = ""
    THEN FALSE
    ELSE TRUE

\* main, lines 71-75
SetupEnvironment ==
    /\ pc = "setup_environment"
    /\ \E makedirs_ok \in BOOLEAN :
        IF ~setup_environment(makedirs_ok)
        THEN /\ result' = ErrorResult("environment_failed")
             /\ pc' = "done"
        ELSE /\ pc' = "analyze_stock"
             /\ UNCHANGED result
    /\ UNCHANGED << probe, config, data_vars, analysis_vars, report, analysis_result, send_success, calls >>

\* main without the check of lines 82-85: every analysis result is sent
CheckAnalysisSkipped ==
    /\ pc = "check_analysis"
    /\ pc' = "send"
    /\ UNCHANGED << probe, config, data_vars, analysis_vars, report, analysis_result,
                    send_success, result, calls >>

\* main, lines 81-85: the check of the analysis result
CheckAnalysis ==
    /\ pc = "check_analysis"
    /\ IF analysis_result.status # "success"
       THEN /\ result' = ErrorResult(Get(analysis_result, "message", "unknown"))
            /\ pc' = "done"
       ELSE /\ pc' = "send"
            /\ UNCHANGED result
    /\ UNCHANGED << probe, config, data_vars, analysis_vars, report, analysis_result, send_success, calls >>

\* Config.MAIL_TO is empty or blank, email_sender.py line 36
MailToMissing == config.MAIL_TO = "" \/ config.MAIL_TO = " "

\* email_sender.py, send_stock_analysis_report, lines 31-77: smtp_ok is whether
\* connecting, logging in and sending all succeeded; every exception gives False
send_stock_analysis_report(smtp_ok) == ~MailToMissing /\ smtp_ok

\* the result of lines 92-103 with the failure branch reporting "error"
SendResultAsError(sent) ==
    IF sent
    THEN [status |-> "success", stock_code |-> "code", message |-> "report_sent", report_date |-> "now"]
    ELSE [status |-> "error", stock_code |-> "code", message |-> "send_failed"]

\* main, lines 92-103
SendResult(sent) ==
    IF sent
    THEN [status |-> "success", stock_code |-> "code", message |-> "report_sent", report_date |-> "now"]
    ELSE [status |-> "failed", stock_code |-> "code", message |-> "send_failed"]

\* main, lines 87-103
Send ==
    /\ pc = "send"
    /\ \E smtp_ok \in BOOLEAN :
        /\ send_success' = send_stock_analysis_report(smtp_ok)
        /\ calls' = calls \o << "send_stock_analysis_report" >>
                          \o (IF MailToMissing THEN << >> ELSE << "smtp" >>)
        /\ result' = SendResult(send_stock_analysis_report(smtp_ok))
    /\ pc' = "done"
    /\ UNCHANGED << probe, config, data_vars, analysis_vars, report, analysis_result >>

----------------------------------------------------------------------------
(* stock_scoring.py: analyze_stock *)

AnalysisError(what) == [status |-> "error", message |-> what]

\* lines 86-91
AnalysisSuccess(rep) ==
    [status |-> "success", stock_code |-> "code", report |-> rep, analysis_time |-> "now"]

\* lines 38-46 and the except clause of lines 93-96
FetchBasicInfo ==
    /\ pc = "analyze_stock"
    /\ \E unexpected \in BOOLEAN, answer \in BasicAnswers :
        IF unexpected
        THEN /\ analysis_result' = AnalysisError("analysis_failed")
             /\ pc' = "check_analysis"
             /\ UNCHANGED << basic_info, calls >>
        ELSE /\ basic_info' = get_stock_basic_info(answer)
             /\ calls' = calls \o << "get_stock_basic_info" >>
             /\ IF ~Truthy(basic_info')
                THEN /\ analysis_result' = AnalysisError("no_basic_info")
                     /\ pc' = "check_analysis"
                ELSE /\ pc' = "get_realtime"
                     /\ UNCHANGED analysis_result
    /\ UNCHANGED << probe, config, realtime_data, daily_data, technical_indicators, fund_flow_data,
                    financial_data, news_data, analysis_vars, report, send_success, result >>

\* lines 48-52
FetchRealtime ==
    /\ pc = "get_realtime"
    /\ \E answer \in RealtimeAnswers :
        /\ realtime_data' = get_stock_realtime_data(answer)
        /\ calls' = calls \o << "get_stock_realtime_data" >>
        /\ IF ~Truthy(realtime_data')
           THEN /\ analysis_result' = AnalysisError("no_realtime_data")
                /\ pc' = "check_analysis"
           ELSE /\ pc' = "get_daily"
                /\ UNCHANGED analysis_result
    /\ UNCHANGED << probe, config, basic_info, daily_data, technical_indicators, fund_flow_data,
                    financial_data, news_data, analysis_vars, report, send_success, result >>

\* the validation of line 55 left out: an empty history is let through
DailyDataNeverMissing(df) == FALSE

\* daily_data.empty, line 55
DailyDataMissing(df) == df = << >>

\* lines 54-58
FetchDaily ==
    /\ pc = "get_daily"
    /\ \E answer \in DailyAnswers :
        /\ daily_data' = get_stock_daily_data(answer, Today, 365)
        /\ calls' = calls \o << "get_stock_daily_data" >>
        /\ IF DailyDataMissing(daily_data')
           THEN /\ analysis_result' = AnalysisError("no_daily_data")
                /\ pc' = "check_analysis"
           ELSE /\ pc' = "get_indicators"
                /\ UNCHANGED analysis_result
    /\ UNCHANGED << probe, config, basic_info, realtime_data, technical_indicators, fund_flow_data,
                    financial_data, news_data, analysis_vars, report, send_success, result >>

\* line 61; the calculator fetches the daily history itself (stock_crawler.py line 198)
FetchIndicators ==
    /\ pc = "get_indicators"
    /\ \E answer \in DailyAnswers :
        technical_indicators' = get_technical_indicators(get_stock_daily_data(answer, Today, 365))
    /\ calls' = calls \o << "get_technical_indicators", "get_stock_daily_data" >>
    /\ pc' = "get_fund_flow"
    /\ UNCHANGED << probe, config, basic_info, realtime_data, daily_data, fund_flow_data,
                    financial_data, news_data, analysis_vars, report, analysis_result,
                    send_success, result >>

\* line 62
FetchFundFlow ==
    /\ pc = "get_fund_flow"
    /\ \E answer \in FundFlowAnswers : fund_flow_data' = get_fund_flow_data(answer)
    /\ calls' = calls \o << "get_fund_flow_data" >>
    /\ pc' = "get_financial"
    /\ UNCHANGED << probe, config, basic_info, realtime_data, daily_data, technical_indicators,
                    financial_data, news_data, analysis_vars, report, analysis_result,
                    send_success, result >>

\* line 63
FetchFinancial ==
    /\ pc = "get_financial"
    /\ \E answer \in FinancialAnswers : financial_data' = get_financial_data(answer)
    /\ calls' = calls \o << "get_financial_data" >>
    /\ pc' = "get_news"
    /\ UNCHANGED << probe, config, basic_info, realtime_data, daily_data, technical_indicators,
                    fund_flow_data, news_data, analysis_vars, report, analysis_result,
                    send_success, result >>

\* line 64; get_stock_news looks the stock name up again (stock_crawler.py line 425)
FetchNews ==
    /\ pc = "get_news"
    /\ \E name_answer \in BasicAnswers, answer \in NewsAnswers :
        news_data' = get_stock_news(get_stock_basic_info(name_answer), answer, Today, 7)
    /\ calls' = calls \o << "get_stock_news", "get_stock_basic_info" >>
    /\ pc' = "analyze_technical"
    /\ UNCHANGED << probe, config, basic_info, realtime_data, daily_data, technical_indicators,
                    fund_flow_data, financial_data, analysis_vars, report, analysis_result,
                    send_success, result >>

\* line 67
AnalyzeTechnical ==
    /\ pc = "analyze_technical"
    /\ technical_analysis' = analyze_technical_indicators(technical_indicators, daily_data)
    /\ calls' = calls \o << "analyze_technical_indicators" >>
    /\ pc' = "analyze_fund_flow"
    /\ UNCHANGED << probe, config, data_vars, fund_flow_analysis, market_context_analysis,
                    financial_analysis, news_analysis, report, analysis_result,
                    send_success, result >>

\* line 68
AnalyzeFundFlow ==
    /\ pc = "analyze_fund_flow"
    /\ fund_flow_analysis' = analyze_fund_flow(fund_flow_data)
    /\ calls' = calls \o << "analyze_fund_flow" >>
    /\ pc' = "analyze_market"
    /\ UNCHANGED << probe, config, data_vars, technical_analysis, market_context_analysis,
                    financial_analysis, news_analysis, report, analysis_result,
                    send_success, result >>

\* line 69; the analyzer fetches the two index histories itself (lines 429-431)
AnalyzeMarket ==
    /\ pc = "analyze_market"
    /\ \E sh_answer \in IndexAnswers, sz_answer \in IndexAnswers :
        market_context_analysis' =
            analyze_market_context(get_stock_index_data(sh_answer), get_stock_index_data(sz_answer))
    /\ calls' = calls \o << "analyze_market_context", "get_stock_index_data", "get_stock_index_data" >>
    /\ pc' = "analyze_financial"
    /\ UNCHANGED << probe, config, data_vars, technical_analysis, fund_flow_analysis,
                    financial_analysis, news_analysis, report, analysis_result,
                    send_success, result >>

\* line 70
AnalyzeFinancial ==
    /\ pc = "analyze_financial"
    /\ financial_analysis' = analyze_financial_data(financial_data)
    /\ calls' = calls \o << "analyze_financial_data" >>
    /\ pc' = "analyze_news"
    /\ UNCHANGED << probe, config, data_vars, technical_analysis, fund_flow_analysis,
                    market_context_analysis, news_analysis, report, analysis_result,
                    send_success, result >>

\* line 71
AnalyzeNews ==
    /\ pc = "analyze_news"
    /\ news_analysis' = analyze_news(news_data)
    /\ calls' = calls \o << "analyze_news" >>
    /\ pc' = "generate_report"
    /\ UNCHANGED << probe, config, data_vars, technical_analysis, fund_flow_analysis,
                    market_context_analysis, financial_analysis, report, analysis_result,
                    send_success, result >>

\* the arguments of generate_stock_analysis_report, lines 74-83
ReportArgs ==
    [basic_info |-> basic_info, realtime_data |-> realtime_data,
     technical |-> technical_analysis, fund_flow |-> fund_flow_analysis,
     market |-> market_context_analysis, financial |-> financial_analysis,
     news |-> news_analysis]

\* generate_stock_analysis_report, lines 792-911; a KeyError ends the composer in
\* its except clause (lines 962-965) and analyze_stock returns (lines 85-91)
ComposeHead ==
    /\ pc = "generate_report"
    /\ calls' = calls \o << "generate_stock_analysis_report" >>
    /\ IF MissingReads(ReportArgs) # {}
       THEN /\ report' = GenerationError(ReportReads[MinOf2(MissingReads(ReportArgs))][2])
            /\ analysis_result' = AnalysisSuccess(report')
            /\ pc' = "check_analysis"
       ELSE /\ report' = ReportHead(ReportArgs)
            /\ pc' = "report_table"
            /\ UNCHANGED analysis_result
    /\ UNCHANGED << probe, config, data_vars, analysis_vars, send_success, result >>

\* generate_stock_analysis_report, lines 913-965, and analyze_stock, lines 85-91
ComposeTable ==
    /\ pc = "report_table"
    /\ \E daily_answer \in DailyAnswers, flow_answer \in FundFlowAnswers :
        LET recent_daily == get_stock_daily_data(daily_answer, Today, 10)
            recent_flow == get_fund_flow_data(flow_answer)
        IN report' = IF TableRaises(recent_daily, recent_flow)
                     THEN GenerationError("main_net_inflow")
                     ELSE report \o TableLines(recent_daily, recent_flow) \o ReportTail(ReportArgs)
    /\ calls' = calls \o << "get_stock_daily_data", "get_fund_flow_data" >>
    /\ analysis_result' = AnalysisSuccess(report')
    /\ pc' = "check_analysis"
    /\ UNCHANGED << probe, config, data_vars, analysis_vars, send_success, result >>

Next ==
    \/ MainStart
    \/ SetupEnvironment
    \/ FetchBasicInfo
    \/ FetchRealtime
    \/ FetchDaily
    \/ FetchIndicators
    \/ FetchFundFlow
    \/ FetchFinancial
    \/ FetchNews
    \/ AnalyzeTechnical
    \/ AnalyzeFundFlow
    \/ AnalyzeMarket
    \/ AnalyzeFinancial
    \/ AnalyzeNews
    \/ ComposeHead
    \/ ComposeTable
    \/ CheckAnalysis
    \/ Send

Spec == Init /\ [][Next]_vars

TypeOK == pc \in {"main", "setup_environment", "analyze_stock", "get_realtime", "get_daily",
                  "get_indicators", "get_fund_flow", "get_financial", "get_news",
                  "analyze_technical", "analyze_fund_flow", "analyze_market",
                  "analyze_financial", "analyze_news", "generate_report", "report_table",
                  "check_analysis", "send", "done"}

\* the run under weak fairness: a call that was made returns, so the run goes on
\* until main has returned
FairSpec == Init /\ [][Next]_vars /\ WF_vars(Next)

----------------------------------------------------------------------------
(* Properties of the run of main *)

Called(name) == \E i \in 1..Len(calls) : calls[i] = name

Analyzers == {"analyze_technical_indicators", "analyze_fund_flow", "analyze_market_context",
              "analyze_financial_data", "analyze_news"}

\* a mandatory source was fetched by analyze_stock and came back empty
MandatoryMissing ==
    \/ Called("get_stock_basic_info") /\ ~Truthy(basic_info)
    \/ Called("get_stock_realtime_data") /\ ~Truthy(realtime_data)
    \/ Called("get_stock_daily_data") /\ daily_data = << >>

\* C1: when basic info, the realtime quote or the daily history is missing,
\* analyze_stock returns status "error" with a message, main returns status
\* "error" with a message, and in that run no sub-analyzer was invoked, no
\* report was composed and no send was attempted.
C1_MandatoryMissingAborts ==
    MandatoryMissing =>
        /\ pc \in {"check_analysis", "done"}
        /\ analysis_result.status = "error" /\ HasKey(analysis_result, "message")
        /\ pc = "done" => (result.status = "error" /\ HasKey(result, "message"))
        /\ \A a \in Analyzers : ~Called(a)
        /\ ~Called("generate_stock_analysis_report") /\ report = << >>
        /\ ~Called("send_stock_analysis_report") /\ ~Called("smtp")

\* C1 witness: a finished run whose daily history came back empty
C1_Witness ==
    /\ pc = "done"
    /\ Truthy(basic_info) /\ Truthy(realtime_data)
    /\ Called("get_stock_daily_data") /\ daily_data = << >>
    /\ result.status = "error"

\* the line of the report that carries the composite score and the tier
HasScoreLine(rep) == \E i \in 1..Len(rep) : rep[i].tag = "score"
ScoreLine(rep) == rep[CHOOSE i \in 1..Len(rep) : rep[i].tag = "score"]

\* the composite in hundredths as the spec states it, from five sub-scores
WeightedSum(t, f, fi, n, m) == 30 * t + 25 * f + 20 * fi + 15 * n + 10 * m

\* the sub-score of an analysis, 50 when it has none
ScoreOr50(analysis, key) == IF HasKey(analysis, key) THEN analysis[key] ELSE 50

ExpectedComposite ==
    WeightedSum(ScoreOr50(technical_analysis, "technical_score"),
                ScoreOr50(fund_flow_analysis, "fund_flow_score"),
                ScoreOr50(financial_analysis, "financial_score"),
                ScoreOr50(news_analysis, "news_score"),
                ScoreOr50(market_context_analysis, "market_score"))

\* analyze_stock has returned after running the five analyzers
Analyzed == pc \in {"check_analysis", "send", "done"} /\ Called("analyze_news")

MarketUsable == market_context_analysis.status \in {"success", "warning"}

\* C2 (as claimed): with all mandatory data present, when the fund-flow history
\* (or the financial snapshot, or the news list) is empty and the other analyses
\* succeed, the run is not aborted and the report carries a composite score
\* computed with 50 in place of the missing sub-score.
C2_NoDataKeepsComposite ==
    (/\ Analyzed
     /\ technical_analysis.status = "success" /\ MarketUsable
     /\ \/ fund_flow_data = << >> /\ financial_analysis.status = "success"
           /\ news_analysis.status = "success"
        \/ ~Truthy(financial_data) /\ fund_flow_analysis.status = "success"
           /\ news_analysis.status = "success"
        \/ news_data = << >> /\ fund_flow_analysis.status = "success"
           /\ financial_analysis.status = "success")
    => /\ analysis_result.status = "success"
       /\ HasScoreLine(analysis_result.report)
       /\ ScoreLine(analysis_result.report).overall_score = ExpectedComposite

\* the five analyses, in the order they are run
AnalysesSeq ==
    << technical_analysis, fund_flow_analysis, market_context_analysis,
       financial_analysis, news_analysis >>

NumWithStatus(st) == Cardinality({i \in 1..5 : AnalysesSeq[i].status = st})

\* C3 (as claimed): when exactly one sub-analyzer returned status "error" and the
\* other four succeeded, the report is still produced in full and its composite
\* uses 50 for the errored sub-score.
C3_OneErrorKeepsReport ==
    (/\ Analyzed
     /\ NumWithStatus("error") = 1
     /\ NumWithStatus("success") = 4)
    => /\ analysis_result.status = "success"
       /\ ~IsGenerationError(analysis_result.report)
       /\ HasScoreLine(analysis_result.report)
       /\ ScoreLine(analysis_result.report).overall_score = ExpectedComposite

\* C4: when main has returned, its status is "failed" exactly when the analysis
\* succeeded and the send returned false, "success" exactly when the analysis
\* succeeded and the send returned true, and "error" in every other case.
C4_ThreeWayStatus ==
    pc = "done" =>
        LET analysed == analysis_result.status = "success"
            sent == Called("send_stock_analysis_report")
        IN /\ result.status = "failed" <=> (analysed /\ sent /\ ~send_success)
           /\ result.status = "success" <=> (analysed /\ sent /\ send_success)
           /\ result.status = "error" <=> ~analysed
           /\ analysed => sent

\* C4 witness: a run whose analysis succeeded and whose send failed at the transport
C4_Witness ==
    /\ pc = "done" /\ analysis_result.status = "success"
    /\ Called("smtp") /\ ~send_success /\ result.status = "failed"

\* C5: every run of main ends with main returning a structured result: a status
\* among success, error, failed, with stock_code and message.
C5_AlwaysStructuredResult ==
    <>(/\ pc = "done"
       /\ result.status \in {"success", "error", "failed"}
       /\ HasKey(result, "stock_code") /\ HasKey(result, "message"))

\* C5 witness: main returned the result of its except clause
C5_Witness == pc = "done" /\ HasKey(result, "timestamp") /\ result.status = "error"

----------------------------------------------------------------------------
(* The analyzers and the composer on their own: analyze_stock from line 67  *)
(* on, started from locals drawn from grids of provider data.               *)

\* the calls analyze_stock has made when it reaches line 67
FetchCalls ==
    << "get_stock_basic_info", "get_stock_realtime_data", "get_stock_daily_data",
       "get_technical_indicators", "get_stock_daily_data", "get_fund_flow_data",
       "get_financial_data", "get_stock_news", "get_stock_basic_info" >>

SampleConfig ==
    [MAIL_SERVER |-> "smtp.qq.com", MAIL_USERNAME |-> "user", MAIL_PASSWORD |-> "secret",
     MAIL_TO |-> "a@qq.com"]

SampleBasicInfo == get_stock_basic_info([raised |-> FALSE, data |-> [found |-> TRUE, stock_name |-> "ACME"]])

SampleRealtime ==
    get_stock_realtime_data([raised |-> FALSE,
                             data |-> [found |-> TRUE, current_price |-> 1000, date |-> "today"]])

\* one-bar histories closing at 9.00, 10.00 and 11.00: below, inside and above the sample bands
PriceHistories == {<< Bar(Today, c, 100) >> : c \in {9, 10, 11}}

\* ma5, ma10, ma20, ma50 in bullish, bearish and mixed order
MaSamples == {<< 1040, 1030, 1020, 1010 >>, << 1010, 1020, 1030, 1040 >>, << 1000, 1000, 1000, NaN >>}

\* macd, macd_signal, macd_histogram: golden cross, dead cross, neither
MacdSamples == {<< 10, 5, 5 >>, << -10, -5, -5 >>, << 0, 0, 0 >>}

Indicators(rsi, ma, mc, vc) ==
    [rsi_14 |-> rsi, macd |-> mc[1], macd_signal |-> mc[2], macd_histogram |-> mc[3],
     boll_upper |-> 1050, boll_middle |-> 1000, boll_lower |-> 950,
     ma5 |-> ma[1], ma10 |-> ma[2], ma20 |-> ma[3], ma50 |-> ma[4],
     volume_ma5 |-> 100, volume_ma10 |-> 100, volume_change |-> vc,
     resistance1 |-> 1100, support1 |-> 900, recent_high |-> 1150, recent_low |-> 850]

\* indicator dicts: every combination of momentum, trend, macd and volume
\* readings, an empty dict, a dict with one key, and the calculator's own output
IndicatorGrid ==
    {Indicators(rsi, ma, mc, vc) :
        rsi \in {NaN, 2000, 3000, 4000, 5000, 6000, 7000, 10000}, ma \in MaSamples,
        mc \in MacdSamples, vc \in {NaN, Inf, 6000, 5000, 0, -3000, -4000}}
    \cup {EmptyDict, [rsi_14 |-> 5000]}
    \cup {get_technical_indicators(h) : h \in {FlatHist, RiseHist, FallHist, ShortHist}}

\* the indicators that earn the largest bonus in every category (with the bar closing at 9.00)
BestIndicators == Indicators(5000, << 1040, 1030, 1020, 1010 >>, << 10, 5, 5 >>, 6000)

GridFlowRow(main, inst, retail) ==
    [date |-> Today, main_net_inflow |-> main,
     super_net_inflow |-> inst[1], large_net_inflow |-> inst[2],
     medium_net_inflow |-> retail[1], small_net_inflow |-> retail[2]]

SignPairs == {<< 1, 1 >>, << -1, -1 >>, << 1, -1 >>}

\* fund-flow histories: the latest row over every combination of main flow,
\* institutional and retail direction, without a total amount, with a zero
\* one and with 10000; an older row before it; no rows; a row lacking a column
FundFlowGrid ==
    LET rows == {GridFlowRow(main, inst, retail) :
                    main \in {-1001, -1000, -501, -500, 0, 500, 501, 1000, 1001},
                    inst \in SignPairs, retail \in SignPairs}
        withAmount == rows \cup {WithAmount(r, a) : r \in rows, a \in {0, 10000}}
        \* main_net_inflow 100000 and 50000 on a total amount of 1000000: ratios 10 and 5
        millions == {WithAmount(GridFlowRow(main, inst, retail), 1000000) :
                        main \in {50000, 100000}, inst \in SignPairs, retail \in SignPairs}
    IN {<< r >> : r \in withAmount \cup millions}
       \cup {<< FlowRow(Today - 1, -20000, -100, 200), r >> : r \in {WithAmount(q, 10000) : q \in rows}}
       \cup {<< >>, << FlowRowNoMain(Today) >>}

BestFlow == << WithAmount(GridFlowRow(1001, << 1, 1 >>, << 1, 1 >>), 10000) >>

FinancialGrid ==
    {[eps |-> 100, net_profit_growth |-> g, revenue_growth |-> r, roe |-> e,
      gross_margin |-> m, net_margin |-> 500] :
        g \in {NaN, 0, 1500, 3000, 3001}, r \in {NaN, 1, 1500, 3001},
        e \in {NaN, 500, 1000, 1500, 1501}, m \in {NaN, 2000, 3000, 4000, 4001}}
    \cup {EmptyDict, [eps |-> 100],
          [eps |-> 0, net_profit_growth |-> Bad, revenue_growth |-> 500, roe |-> 700,
           gross_margin |-> 2500, net_margin |-> 100]}

BestFinancial ==
    [eps |-> 100, net_profit_growth |-> 3001, revenue_growth |-> 3001, roe |-> 1501,
     gross_margin |-> 4001, net_margin |-> 500]

\* news items: a title with no keyword, with one event keyword, or with 业绩预增;
\* a content with no keyword or with the negative keyword 下跌
NewsItems ==
    {NewsRow(Today, title, content) :
        title \in {{"other"}, {"huigou"}, {"zhanluehezuo"}, {"yejiyuzeng"}, {"jianchi"}, {"jianguan"}},
        content \in {{"other"}, {"xiadie"}}}

\* an item with a positive keyword, with a negative keyword, with neither
PositiveItem == NewsRow(Today, {"other"}, {"shangzhang"})
NegativeItem == NewsRow(Today, {"other"}, {"xiadie"})
NeutralItem == NewsRow(Today, {"other"}, {"other"})

Repeat(x, n) == [i \in 1..n |-> x]

\* lists of five items with every split into positive, negative and neutral
\* items (60% and 40% among the ratios), and three positive items out of ten
RatioNewsLists ==
    {Repeat(PositiveItem, p) \o Repeat(NegativeItem, n) \o Repeat(NeutralItem, 5 - p - n) :
        p \in 0..5, n \in 0..2}
    \cup {Repeat(NegativeItem, n) \o Repeat(NeutralItem, 5 - n) : n \in 3..5}
    \cup {Repeat(NegativeItem, 3) \o Repeat(PositiveItem, 2)}
    \cup {Repeat(PositiveItem, 3) \o Repeat(NeutralItem, 7)}

\* lists with three, four and five event titles between other titles; 增持
\* and 减持 in one title
EventNewsLists ==
    {<< NewsRow(Today, {"huigou"}, {"other"}), NeutralItem,
        NewsRow(Today, {"jianguan"}, {"xiadie"}),
        NewsRow(Today, {"zengchi", "jianchi"}, {"other"}),
        NegativeItem,
        NewsRow(Today, {"yejiyuzeng"}, {"other"}) >>,
     << NeutralItem, NewsRow(Today, {"susong"}, {"other"}),
        NewsRow(Today, {"zhanluehezuo"}, {"other"}),
        NewsRow(Today, {"yeji"}, {"other"}),
        NewsRow(Today, {"chufa"}, {"other"}) >>,
     << NewsRow(Today, {"jianchi"}, {"other"}), NewsRow(Today, {"huigou"}, {"other"}),
        NewsRow(Today, {"jianchi"}, {"other"}), NewsRow(Today, {"zengchi"}, {"other"}),
        NewsRow(Today, {"huigou"}, {"other"}) >>}

\* the news lists of 1 to MaxNews items, the longer lists above, no news, and
\* an item whose content is not a string
NewsGrid ==
    UNION {[1..n -> NewsItems] : n \in 1..MaxNews}
    \cup RatioNewsLists \cup EventNewsLists
    \cup {<< >>, << NewsRow(Today, {"other"}, NoText) >>}

BestNews == << NewsRow(Today, {"huigou"}, {"other"}) >>

\* the nine-yuan bar: the close is below the lower band of the sample indicators
LowBar == << Bar(Today, 9, 100) >>

BestMarket == analyze_market_context(RisingIndex, RisingIndex)

\* the inputs that earn the smallest bonus in every category: the bar closing
\* at 11.00 above the upper band, an oversold rsi, bearish averages, a dead
\* cross and a contracting volume; outflows in every size class; financial
\* metrics at zero; one negative news item about a share reduction (减持)
HighBar == << Bar(Today, 11, 100) >>
WorstIndicators == Indicators(2000, << 1010, 1020, 1030, 1040 >>, << -10, -5, -5 >>, -4000)
WorstFlow == << WithAmount(GridFlowRow(-1001, << -1, -1 >>, << -1, -1 >>), 10000) >>
WorstFinancial ==
    [eps |-> 0, net_profit_growth |-> 0, revenue_growth |-> 0, roe |-> 0,
     gross_margin |-> 0, net_margin |-> 0]
WorstNews == << NewsRow(Today, {"jianchi"}, {"other"}) >>

\* the market analyses the analyzer can return
MarketAnalyses ==
    {analyze_market_context(get_stock_index_data(a), get_stock_index_data(b)) :
        a \in IndexAnswers, b \in IndexAnswers}

\* analyze_stock at line 67 with one source drawn from its grid and the others
\* at their best, or with every source at its worst
InitAnalyzers ==
    /\ config = SampleConfig
    /\ basic_info = SampleBasicInfo
    /\ realtime_data = SampleRealtime
    /\ report = << >>
    /\ analysis_result = None
    /\ send_success = FALSE
    /\ result = None
    /\ probe = None
    /\ \/ /\ pc = "analyze_technical"
          /\ daily_data \in PriceHistories
          /\ technical_indicators \in IndicatorGrid
          /\ fund_flow_data = BestFlow /\ financial_data = BestFinancial /\ news_data = BestNews
          /\ technical_analysis = None /\ fund_flow_analysis = None
          /\ market_context_analysis = None /\ financial_analysis = None
          /\ calls = FetchCalls
       \/ /\ pc = "analyze_fund_flow"
          /\ daily_data = LowBar
          /\ technical_indicators = BestIndicators
          /\ fund_flow_data \in FundFlowGrid
          /\ financial_data = BestFinancial /\ news_data = BestNews
          /\ technical_analysis = analyze_technical_indicators(technical_indicators, daily_data)
          /\ fund_flow_analysis = None
          /\ market_context_analysis = None /\ financial_analysis = None
          /\ calls = FetchCalls \o << "analyze_technical_indicators" >>
       \/ /\ pc = "analyze_financial"
          /\ daily_data = LowBar
          /\ technical_indicators = BestIndicators
          /\ fund_flow_data = BestFlow
          /\ financial_data \in FinancialGrid
          /\ news_data = BestNews
          /\ technical_analysis = analyze_technical_indicators(technical_indicators, daily_data)
          /\ fund_flow_analysis = analyze_fund_flow(fund_flow_data)
          /\ market_context_analysis \in MarketAnalyses
          /\ financial_analysis = None
          /\ calls = FetchCalls \o << "analyze_technical_indicators", "analyze_fund_flow",
                                     "analyze_market_context", "get_stock_index_data",
                                     "get_stock_index_data" >>
       \/ /\ pc = "analyze_news"
          /\ daily_data = LowBar
          /\ technical_indicators = BestIndicators
          /\ fund_flow_data = BestFlow
          /\ financial_data = BestFinancial
          /\ news_data \in NewsGrid
          /\ technical_analysis = analyze_technical_indicators(technical_indicators, daily_data)
          /\ fund_flow_analysis = analyze_fund_flow(fund_flow_data)
          /\ market_context_analysis = BestMarket
          /\ financial_analysis = analyze_financial_data(financial_data)
          /\ calls = FetchCalls \o << "analyze_technical_indicators", "analyze_fund_flow",
                                     "analyze_market_context", "get_stock_index_data",
                                     "get_stock_index_data", "analyze_financial_data" >>
       \/ /\ pc = "analyze_technical"
          /\ daily_data = HighBar
          /\ technical_indicators = WorstIndicators
          /\ fund_flow_data = WorstFlow /\ financial_data = WorstFinancial /\ news_data = WorstNews
          /\ technical_analysis = None /\ fund_flow_analysis = None
          /\ market_context_analysis = None /\ financial_analysis = None
          /\ calls = FetchCalls
    /\ news_analysis = None

NextAnalyzers ==
    \/ AnalyzeTechnical
    \/ AnalyzeFundFlow
    \/ AnalyzeMarket
    \/ AnalyzeFinancial
    \/ AnalyzeNews
    \/ ComposeHead
    \/ ComposeTable

SpecAnalyzers == InitAnalyzers /\ [][NextAnalyzers]_vars

----------------------------------------------------------------------------
(* The tier mapping on its own: lines 872-887 applied to two composites *)

\* composites in hundredths: the ends of the range, the three thresholds and
\* their neighbours at the spacing of the weighted sum (0.05) and at 0.01
TierScores ==
    {0, 2500, 4995, 4999, 5000, 5005, 6495, 6499, 6500, 6505, 7995, 7999, 8000, 8005, 9500, 10000}

InitTier ==
    /\ pc = "conclusion"
    /\ config = SampleConfig
    /\ Unassigned
    /\ probe \in {[scores |-> << a, b >>, conclusions |-> << >>] :
                    a \in TierScores, b \in TierScores}

\* lines 872-887 for the first and for the second composite
Conclude ==
    /\ pc = "conclusion"
    /\ probe' = [probe EXCEPT !.conclusions =
                    << Conclusion(probe.scores[1]), Conclusion(probe.scores[2]) >>]
    /\ pc' = "concluded"
    /\ UNCHANGED << config, data_vars, analysis_vars, report, analysis_result,
                    send_success, result, calls >>

SpecTier == InitTier /\ [][Conclude]_vars

----------------------------------------------------------------------------
(* Properties of the analyzers, the aggregator and the tier mapping *)

\* a composite in hundredths limited to [0, 100.00]
ClampComposite(c) == Max(0, Min(10000, c))

\* C6: every composite the aggregator writes lies in [0, 100] and equals the
\* weighted sum 0.30*technical + 0.25*fund_flow + 0.20*financial + 0.15*news
\* + 0.10*market of the five sub-scores (clamped), the weights summing to 1.
C6_CompositeIsWeightedSum ==
    /\ WeightedSum(1, 1, 1, 1, 1) = 100
    /\ HasScoreLine(report) =>
          /\ ScoreLine(report).overall_score = ClampComposite(ExpectedComposite)
          /\ ScoreLine(report).overall_score \in 0..10000

\* C6 witness: a composite written from sub-scores that differ from one another
C6_Witness ==
    /\ HasScoreLine(report)
    /\ technical_analysis.technical_score = 100
    /\ fund_flow_analysis.fund_flow_score < 100
    /\ market_context_analysis.market_score = 50
    /\ ScoreLine(report).overall_score < 9500

ScoreKeys == << "technical_score", "fund_flow_score", "market_score", "financial_score", "news_score" >>

\* C7: every score a sub-analyzer emits lies in [0, 100], whatever the input:
\* an undefined momentum value, a zero total amount, the largest bonus in
\* every category at once.
C7_SubScoresInRange ==
    \A i \in 1..5 :
        HasKey(AnalysesSeq[i], ScoreKeys[i]) => AnalysesSeq[i][ScoreKeys[i]] \in 0..100

\* the technical score before the clamp, from the fields of the analysis
RawTechnical(a) ==
    50 + RsiBonus(a.rsi_14) + BollBonus(a.current_price, a.boll_upper, a.boll_lower)
    + MaBonus(a.ma_status) + MacdBonus(a.macd_status) + VolumeBonus(a.volume_status)

\* C7 witness: the technical bonuses add up to more than 100 and the latest
\* fund-flow row has a zero total amount; both analyzers have emitted a score
C7_Witness ==
    /\ technical_analysis.status = "success"
    /\ RawTechnical(technical_analysis) > 100
    /\ fund_flow_analysis.status = "success"
    /\ HasKey(fund_flow_data[Len(fund_flow_data)], "amount")
    /\ fund_flow_data[Len(fund_flow_data)].amount = 0

\* the tier the mapping is stated to give, with inclusive lower bounds
StatedTier(s) ==
    CASE s >= 8000 -> "strong_buy"
      [] s >= 6500 /\ s < 8000 -> "buy"
      [] s >= 5000 /\ s < 6500 -> "neutral"
      [] s < 5000 -> "caution"

TierRank(tier) ==
    CASE tier = "caution" -> 0 [] tier = "neutral" -> 1 [] tier = "buy" -> 2 [] tier = "strong_buy" -> 3

\* C8: the tier of a composite s is strong-buy for s >= 80, buy for
\* 65 <= s < 80, neutral for 50 <= s < 65 and caution below 50: one tier
\* for every s, and never a lower tier for a higher composite.
C8_TierMapping ==
    pc = "concluded" =>
        /\ \A i \in 1..2 :
              /\ probe.conclusions[i] \in {"strong_buy", "buy", "neutral", "caution"}
              /\ probe.conclusions[i] = StatedTier(probe.scores[i])
        /\ probe.scores[1] <= probe.scores[2]
              => TierRank(probe.conclusions[1]) <= TierRank(probe.conclusions[2])

\* C8 witness: the composites 79.95 and 80.00 fall in different tiers
C8_Witness ==
    /\ pc = "concluded"
    /\ probe.scores = << 7995, 8000 >>
    /\ probe.conclusions = << "buy", "strong_buy" >>

\* the items of a news list that match a positive keyword, a negative one
MatchingPositive(news) == {i \in 1..Len(news) : IsPositive(news[i])}
MatchingNegative(news) == {i \in 1..Len(news) : IsNegative(news[i])}

\* C9: a news item that contains a positive and a negative keyword is counted
\* as neutral: it is in neither positive_count nor negative_count.
C9_BothIsNeutral ==
    news_analysis.status = "success" =>
        LET pos == MatchingPositive(news_data)
            neg == MatchingNegative(news_data)
        IN /\ news_analysis.positive_count = Cardinality(pos \ neg)
           /\ news_analysis.negative_count = Cardinality(neg \ pos)
           /\ news_analysis.neutral_count >= Cardinality(pos \cap neg)
           /\ news_analysis.positive_count + news_analysis.negative_count
              + news_analysis.neutral_count = Len(news_data)

\* C9 witness: the only news item matches both lists and was counted as neutral
C9_Witness ==
    /\ news_analysis.status = "success"
    /\ Len(news_data) = 1
    /\ MatchingPositive(news_data) = {1} /\ MatchingNegative(news_data) = {1}
    /\ news_analysis.neutral_count = 1

AnyEventWith(major_events, kws) ==
    \E i \in 1..Len(major_events) : ContainsAny(major_events[i], kws)

\* C10 (as claimed): the news score is 50 plus the sentiment bonus, less the
\* penalty whenever a major-event title contains 减持, 诉讼, 监管 or 处罚, plus
\* the bonus whenever one contains 回购, 增持, 战略合作 or 业绩预增, clamped.
C10_NewsScoreAsClaimed ==
    news_analysis.status = "success" =>
        news_analysis.news_score =
            Clamp(50 + SentimentBonus(news_analysis.positive_ratio)
                  - (IF AnyEventWith(news_analysis.major_events, bearish_event_keywords) THEN 5 ELSE 0)
                  + (IF AnyEventWith(news_analysis.major_events, bullish_event_keywords) THEN 10 ELSE 0))

----------------------------------------------------------------------------
(* Properties of the single analyzers *)

\* the latest record of the fund-flow history and its total amount (0 when absent)
LatestFlow == fund_flow_data[Len(fund_flow_data)]
LatestAmount == IF HasKey(LatestFlow, "amount") THEN LatestFlow.amount ELSE 0

\* the main-flow bonus for a positive main_net_inflow, as stated: strict tiers
StatedPositiveBonus(ratio) ==
    IF ratio > 1000 THEN 25 ELSE IF ratio > 500 /\ ratio <= 1000 THEN 20 ELSE 15

\* C11: the main-inflow ratio is main_net_inflow / amount * 100 when amount > 0
\* and 0 when the amount is 0 or absent, and the ratio tiers are strict: a
\* ratio of exactly 10 earns +20, not +25, and a ratio of exactly 5 earns +15.
C11_RatioAndStrictTiers ==
    fund_flow_analysis.status = "success" =>
        LET ratio == fund_flow_analysis.main_inflow_ratio
            main == LatestFlow.main_net_inflow
        IN /\ LatestAmount > 0 =>
                 /\ ratio * LatestAmount <= main * 10000
                 /\ main * 10000 < (ratio + 1) * LatestAmount
           /\ LatestAmount <= 0 => ratio = 0
           /\ main > 0 =>
                 fund_flow_analysis.fund_flow_score =
                     Min(100, 50 + StatedPositiveBonus(ratio)
                              + InstitutionalBonus(LatestFlow.super_net_inflow, LatestFlow.large_net_inflow)
                              + RetailBonus(LatestFlow.medium_net_inflow, LatestFlow.small_net_inflow))

\* C11 witness: 100000 on 1000000 gives the ratio 10 and the score 50 + 20 + 10 + 7
C11_Witness ==
    /\ fund_flow_analysis.status = "success"
    /\ LatestFlow.main_net_inflow = 100000 /\ LatestAmount = 1000000
    /\ fund_flow_analysis.main_inflow_ratio = 1000
    /\ fund_flow_analysis.fund_flow_score = 87

\* the technical analyzer has run on the indicators of the all-equal history
FlatAnalysed ==
    /\ technical_analysis.status = "success"
    /\ daily_data = FlatHist
    /\ technical_indicators = get_technical_indicators(FlatHist)

\* what does hold for the all-equal history: undefined momentum, bands and
\* averages all at the close, and the normal / mixed label in every category
FlatLabels ==
    /\ technical_analysis.rsi_14 = NaN
    /\ technical_analysis.boll_upper = 1000 /\ technical_analysis.boll_middle = 1000
    /\ technical_analysis.boll_lower = 1000
    /\ technical_analysis.ma5 = 1000 /\ technical_analysis.ma10 = 1000
    /\ technical_analysis.ma20 = 1000 /\ technical_analysis.ma50 = 1000
    /\ technical_analysis.rsi_status = "normal" /\ technical_analysis.boll_status = "normal"
    /\ technical_analysis.ma_status = "mixed" /\ technical_analysis.macd_status = "mixed"
    /\ technical_analysis.volume_status = "normal"

\* C12 (as claimed): for a history whose closes are all equal the analyzer
\* takes the normal / mixed branch in every category and its score holds no
\* extreme bonus: the momentum bonus is +10 or +15, never the +5 of the
\* extreme branch, on top of 50 + 10 (bands) + 10 (averages) + 10 (macd) + 5 (volume).
C12_FlatHistoryNoExtremeBonus ==
    FlatAnalysed =>
        /\ FlatLabels
        /\ technical_analysis.technical_score \in {85 + 10, 85 + 15}

----------------------------------------------------------------------------
(* A sub-analyzer called twice with the same arguments *)

\* a call: the analyzer and the arguments it is called with (the stock code
\* is left out: it only appears in log and error messages);
\* analyze_market_context takes the stock code alone
AnalyzerCall(analyzer, args) == [call |-> [analyzer |-> analyzer, args |-> args], results |-> << >>]

\* one invocation; sh_answer and sz_answer are what the provider answers to
\* the two index queries analyze_market_context makes (lines 429-431)
Invoke(call, sh_answer, sz_answer) ==
    CASE call.analyzer = "analyze_technical_indicators" ->
            analyze_technical_indicators(call.args[1], call.args[2])
      [] call.analyzer = "analyze_fund_flow" -> analyze_fund_flow(call.args[1])
      [] call.analyzer = "analyze_financial_data" -> analyze_financial_data(call.args[1])
      [] call.analyzer = "analyze_news" -> analyze_news(call.args[1])
      [] call.analyzer = "analyze_market_context" ->
            analyze_market_context(get_stock_index_data(sh_answer), get_stock_index_data(sz_answer))

InitTwice ==
    /\ pc = "first_call"
    /\ config = SampleConfig
    /\ Unassigned
    /\ \/ \E i \in IndicatorGrid : probe = AnalyzerCall("analyze_technical_indicators", << i, LowBar >>)
       \/ \E f \in FundFlowGrid : probe = AnalyzerCall("analyze_fund_flow", << f >>)
       \/ \E f \in FinancialGrid : probe = AnalyzerCall("analyze_financial_data", << f >>)
       \/ \E n \in NewsGrid : probe = AnalyzerCall("analyze_news", << n >>)
       \/ probe = AnalyzerCall("analyze_market_context", << >>)

InvokeFirst ==
    /\ pc = "first_call"
    /\ \E sh_answer \in IndexAnswers, sz_answer \in IndexAnswers :
        probe' = [probe EXCEPT !.results = << Invoke(probe.call, sh_answer, sz_answer) >>]
    /\ pc' = "second_call"
    /\ UNCHANGED << config, data_vars, analysis_vars, report, analysis_result,
                    send_success, result, calls >>

InvokeSecond ==
    /\ pc = "second_call"
    /\ \E sh_answer \in IndexAnswers, sz_answer \in IndexAnswers :
        probe' = [probe EXCEPT !.results = Append(probe.results, Invoke(probe.call, sh_answer, sz_answer))]
    /\ pc' = "called_twice"
    /\ UNCHANGED << config, data_vars, analysis_vars, report, analysis_result,
                    send_success, result, calls >>

NextTwice == InvokeFirst \/ InvokeSecond

SpecTwice == InitTwice /\ [][NextTwice]_vars

\* C13 (as claimed): each of the five sub-analyzers is a function of its
\* arguments: two invocations with identical arguments return identical
\* results, whatever the data provider answers in between.
C13_AnalyzersDeterministic ==
    pc = "called_twice" => probe.results[1] = probe.results[2]

----------------------------------------------------------------------------
(* Properties of the report and of the run, continued *)

\* the fixed headings in the order stated: the title line, sections one to
\* seven, the heading of the recent-trading-days table, the disclaimer note
HeadingTags ==
    << "title", "h1_technical", "h2_fund_volume", "h3_levels", "h4_financial",
       "h5_market", "h6_news", "h7_conclusion", "table_title", "disclaimer" >>

IsHeading(line) == \E i \in 1..Len(HeadingTags) : line.tag = HeadingTags[i]

\* the heading lines of a report, in the order they occur
Headings(rep) ==
    LET lines == SelectSeq(rep, IsHeading)
    IN [i \in 1..Len(lines) |-> lines[i].tag]

\* C14 (as claimed): every report of a run in which analyze_stock reports
\* status "success" holds all fixed headings, each once and in the stated
\* order, with the disclaimer note as its last line.
C14_HeadingsInOrder ==
    analysis_result.status = "success" =>
        /\ Headings(analysis_result.report) = HeadingTags
        /\ analysis_result.report[Len(analysis_result.report)].tag = "disclaimer"

\* the mail server, the user name or the password is empty
MailSetupIncomplete ==
    config.MAIL_SERVER = "" \/ config.MAIL_USERNAME = "" \/ config.MAIL_PASSWORD = ""

\* C15: no delivery is attempted when a required configuration value is
\* absent: with the mail server, user name or password empty main returns
\* status "error" before any analysis or send; with MAIL_TO empty or blank
\* send_stock_analysis_report returns false without contacting the transport.
C15_NoSendWithoutConfig ==
    /\ MailSetupIncomplete =>
          /\ calls = << >>
          /\ pc \in {"main", "setup_environment", "done"}
          /\ pc = "done" => result.status = "error"
    /\ (config.MAIL_TO = "" \/ config.MAIL_TO = " ") =>
          /\ ~Called("smtp")
          /\ Called("send_stock_analysis_report") => (~send_success /\ result.status = "failed")

\* C15 witness: the mail setup is complete, the recipient list is blank, and
\* the send was called and returned false
C15_Witness ==
    /\ pc = "done"
    /\ ~MailSetupIncomplete /\ config.MAIL_TO = " "
    /\ Called("send_stock_analysis_report") /\ ~send_success

\* analyze_stock has returned, the market analysis is the fallback of the
\* empty index history and the other four analyses succeeded
MarketFellBack ==
    /\ Analyzed
    /\ market_context_analysis.status = "warning"
    /\ technical_analysis.status = "success" /\ fund_flow_analysis.status = "success"
    /\ financial_analysis.status = "success" /\ news_analysis.status = "success"

\* the fallback result: the neutral score, a trend label and the disclaimer
FallbackShape ==
    /\ HasKey(market_context_analysis, "market_score")
    /\ market_context_analysis.market_score = 50
    /\ HasKey(market_context_analysis, "market_trend")
    /\ HasKey(market_context_analysis, "market_comment")

\* the returned report has every heading and a composite computed with the
\* sub-scores of the analyses (50 for the market)
FullReportWithComposite ==
    /\ analysis_result.status = "success"
    /\ Headings(analysis_result.report) = HeadingTags
    /\ HasScoreLine(analysis_result.report)
    /\ ScoreLine(analysis_result.report).overall_score = ExpectedComposite

\* the composer failed in its table step, on the fund-flow rows it fetched
\* itself (line 934), after the composite had been written
TableStepFailed == analysis_result.report = GenerationError("main_net_inflow")

NoIndicators ==
    /\ Analyzed
    /\ daily_data # << >>
    /\ technical_indicators = EmptyDict

\* C17: when the indicator calculator returns an empty IndicatorSet (its own
\* fetch of the daily history came back empty), technical analysis is skipped
\* gracefully: a report with the remaining sections and a composite score is
\* still produced.
C17_EmptyIndicatorsKeepReport ==
    NoIndicators =>
        /\ analysis_result.status = "success"
        /\ ~IsGenerationError(analysis_result.report)
        /\ HasScoreLine(analysis_result.report)
        /\ \A tag \in {"h2_fund_volume", "h4_financial", "h5_market", "h6_news", "h7_conclusion"} :
              \E i \in 1..Len(analysis_result.report) : analysis_result.report[i].tag = tag

\* the five bonuses as stated, from the fields of the technical analysis a
StatedMomentum(a) ==
    IF FGe(a.rsi_14, 4000) /\ FLe(a.rsi_14, 6000) THEN 15
    ELSE IF FGe(a.rsi_14, 3000) /\ FLe(a.rsi_14, 7000) THEN 10 ELSE 5

StatedBand(a) ==
    IF FGt(a.current_price, a.boll_upper) THEN 5
    ELSE IF FLt(a.current_price, a.boll_lower) THEN 15 ELSE 10

StatedAverages(a) ==
    IF FGt(a.ma5, a.ma10) /\ FGt(a.ma10, a.ma20) /\ FGt(a.ma20, a.ma50) THEN 20
    ELSE IF FLt(a.ma5, a.ma10) /\ FLt(a.ma10, a.ma20) /\ FLt(a.ma20, a.ma50) THEN 5 ELSE 10

StatedOscillator(a) ==
    IF FGt(a.macd, a.macd_signal) /\ FGt(a.macd_histogram, 0) THEN 15
    ELSE IF FLt(a.macd, a.macd_signal) /\ FLt(a.macd_histogram, 0) THEN 5 ELSE 10

StatedVolume(a) ==
    IF FGt(a.volume_change, 5000) THEN 10
    ELSE IF FLt(a.volume_change, -3000) THEN 2 ELSE 5

\* the status labels are chosen by the comparisons that choose the bonuses
StatedLabels(a) ==
    /\ a.rsi_status = "overbought" <=> FGt(a.rsi_14, 7000)
    /\ a.rsi_status = "oversold" <=> FLt(a.rsi_14, 3000)
    /\ a.rsi_status \in {"overbought", "oversold", "normal"}
    /\ a.boll_status = "above_upper" <=> StatedBand(a) = 5
    /\ a.boll_status = "below_lower" <=> StatedBand(a) = 15
    /\ a.boll_status = "normal" <=> StatedBand(a) = 10
    /\ a.ma_status = "bullish" <=> StatedAverages(a) = 20
    /\ a.ma_status = "bearish" <=> StatedAverages(a) = 5
    /\ a.ma_status = "mixed" <=> StatedAverages(a) = 10
    /\ a.macd_status = "golden" <=> StatedOscillator(a) = 15
    /\ a.macd_status = "dead" <=> StatedOscillator(a) = 5
    /\ a.macd_status = "mixed" <=> StatedOscillator(a) = 10
    /\ a.volume_status = "expanding" <=> StatedVolume(a) = 10
    /\ a.volume_status = "contracting" <=> StatedVolume(a) = 2
    /\ a.volume_status = "normal" <=> StatedVolume(a) = 5

\* the indicator values the analysis reports are those of the IndicatorSet
\* (with the defaults of .get for the absent ones) and the latest close
ReadsIndicators(a) ==
    /\ a.current_price = daily_data[Len(daily_data)].close
    /\ \A k \in {"rsi_14", "boll_upper", "boll_lower", "ma5", "ma10", "ma20", "ma50",
                 "macd", "macd_signal", "macd_histogram", "volume_change"} :
          a[k] = Get(technical_indicators, k, IF k = "rsi_14" THEN 5000 ELSE 0)

\* C18: for every non-empty IndicatorSet and latest close, technical_score =
\* min(100, 50 + m + b + a + o + v) with m 15/10/5 by the rsi bands [40,60] and
\* [30,70], b 5/15/10 by close above the upper / below the lower band, a
\* 20/5/10 by the strict ordering of ma5, ma10, ma20, ma50, o 15/5/10 by macd
\* against its signal and the histogram's sign, v 10/2/5 by volume change
\* > 50 / < -30, and every status label is chosen by the same comparisons.
C18_TechnicalScoreFormula ==
    (Called("analyze_technical_indicators") /\ technical_indicators # EmptyDict
     /\ daily_data # << >>) =>
        /\ technical_analysis.status = "success"
        /\ ReadsIndicators(technical_analysis)
        /\ technical_analysis.technical_score =
              Min(100, 50 + StatedMomentum(technical_analysis) + StatedBand(technical_analysis)
                       + StatedAverages(technical_analysis) + StatedOscillator(technical_analysis)
                       + StatedVolume(technical_analysis))
        /\ StatedLabels(technical_analysis)

\* C18 witness: an rsi of exactly 70 with a volume change of exactly -30: the
\* middle momentum tier, the label "normal" for both, and a score below 100
C18_Witness ==
    /\ Called("analyze_technical_indicators")
    /\ technical_indicators # EmptyDict
    /\ technical_analysis.status = "success"
    /\ technical_analysis.rsi_14 = 7000 /\ technical_analysis.rsi_status = "normal"
    /\ technical_analysis.volume_change = -3000 /\ technical_analysis.volume_status = "normal"
    /\ technical_analysis.ma_status = "bearish"
    /\ technical_analysis.technical_score = 50 + 10 + StatedBand(technical_analysis) + 5
                                            + StatedOscillator(technical_analysis) + 5

\* every row of the fund-flow history has the five net-inflow columns
FlowReadable ==
    /\ fund_flow_data # << >>
    /\ \A i \in 1..Len(fund_flow_data) : FundFlowColumns \subseteq DOMAIN fund_flow_data[i]

\* the main-flow bonus as stated, with ratio = main / amount * 100 compared
\* without rounding (ratio > 10  iff  main * 100 > 10 * amount) and ratio = 0
\* when there is no positive amount
StatedMainBonus(main, amount) ==
    LET gt(x) == IF amount > 0 THEN main * 100 > x * amount ELSE 0 > x
        lt(x) == IF amount > 0 THEN main * 100 < x * amount ELSE 0 < x
    IN IF main > 0
       THEN IF gt(10) THEN 25 ELSE IF gt(5) THEN 20 ELSE 15
       ELSE IF lt(-10) THEN 5 ELSE IF lt(-5) THEN 10 ELSE 15

StatedInstitutional(row) ==
    IF row.super_net_inflow > 0 /\ row.large_net_inflow > 0 THEN 20
    ELSE IF row.super_net_inflow < 0 /\ row.large_net_inflow < 0 THEN 5 ELSE 10

StatedRetail(row) ==
    IF row.medium_net_inflow > 0 /\ row.small_net_inflow > 0 THEN 10
    ELSE IF row.medium_net_inflow < 0 /\ row.small_net_inflow < 0 THEN 5 ELSE 7

\* C19: for every non-empty fund-flow history, fund_flow_score =
\* min(100, 50 + p + i + r) computed from the latest record only, p the
\* main-flow bonus (25/20/15 by ratio > 10 / > 5 for a positive main flow,
\* 5/10/15 by ratio < -10 / < -5 otherwise), i = 20/5/10 by the signs of the
\* super and large flows, r = 10/5/7 by the signs of the medium and small
\* flows; a main_net_inflow of exactly 0 is labelled net outflow.
C19_FundFlowScoreFormula ==
    (Called("analyze_fund_flow") /\ FlowReadable) =>
        /\ fund_flow_analysis.status = "success"
        /\ fund_flow_analysis.fund_flow_score =
              Min(100, 50 + StatedMainBonus(LatestFlow.main_net_inflow, LatestAmount)
                       + StatedInstitutional(LatestFlow) + StatedRetail(LatestFlow))
        /\ fund_flow_analysis.main_flow_status = "inflow" <=> LatestFlow.main_net_inflow > 0
        /\ fund_flow_analysis.main_flow_status = "outflow" <=> LatestFlow.main_net_inflow <= 0

\* C19 witness: a history of two records whose latest has a main flow of
\* exactly 0 while the older one has a large outflow: labelled outflow and
\* scored 50 + 15 + 20 + 10 from the latest record
C19_Witness ==
    /\ Called("analyze_fund_flow")
    /\ Len(fund_flow_data) = 2
    /\ fund_flow_data[1].main_net_inflow < -1000
    /\ LatestFlow.main_net_inflow = 0
    /\ fund_flow_analysis.status = "success"
    /\ fund_flow_analysis.main_flow_status = "outflow"
    /\ fund_flow_analysis.fund_flow_score = 95

\* the tier of x under the strict thresholds hi > mid > lo: 1 is the top tier,
\* 4 the tier of everything that is not above lo
StatedTierOf(x, hi, mid, lo) ==
    IF FGt(x, hi) THEN 1 ELSE IF FGt(x, mid) THEN 2 ELSE IF FGt(x, lo) THEN 3 ELSE 4

\* the labels and bonuses of the four tiers, best tier first
GrowthLabels == << "high", "steady", "low", "negative" >>
QualityLabels == << "excellent", "good", "fair", "normal" >>
ProfitBonuses == << 20, 15, 10, 5 >>
RevenueBonuses == << 15, 10, 5, 2 >>
RoeBonuses == << 15, 10, 5, 2 >>
MarginBonuses == << 10, 7, 5, 3 >>

\* the four metrics of the financial snapshot are numbers (or absent)
FinancialReadable ==
    /\ financial_data # EmptyDict
    /\ \A k \in {"net_profit_growth", "revenue_growth", "roe", "gross_margin"} :
          Get(financial_data, k, 0) # Bad

\* C20: the financial analyzer classifies net-profit growth, revenue growth,
\* ROE and gross margin each into one of four tiers by strict thresholds
\* (growth 30/15/0, ROE 15/10/5, margin 40/30/20), a value equal to a threshold
\* falling in the lower tier; financial_score = min(100, 50 + the four tier
\* bonuses) and each status label is the label of the tier that set the bonus.
C20_FinancialTiers ==
    (Called("analyze_financial_data") /\ FinancialReadable) =>
        LET a == financial_analysis
            p == StatedTierOf(Get(financial_data, "net_profit_growth", 0), 3000, 1500, 0)
            r == StatedTierOf(Get(financial_data, "revenue_growth", 0), 3000, 1500, 0)
            e == StatedTierOf(Get(financial_data, "roe", 0), 1500, 1000, 500)
            m == StatedTierOf(Get(financial_data, "gross_margin", 0), 4000, 3000, 2000)
        IN /\ a.status = "success"
           /\ a.financial_score =
                 Min(100, 50 + ProfitBonuses[p] + RevenueBonuses[r] + RoeBonuses[e] + MarginBonuses[m])
           /\ a.profit_growth_status = GrowthLabels[p]
           /\ a.revenue_growth_status = GrowthLabels[r]
           /\ a.roe_status = QualityLabels[e]
           /\ a.gross_margin_status = QualityLabels[m]

\* C20 witness: growth of exactly 15, ROE of exactly 15 and a margin of exactly
\* 40 each fall in the tier below the threshold
C20_Witness ==
    /\ Called("analyze_financial_data")
    /\ financial_analysis.status = "success"
    /\ Get(financial_data, "net_profit_growth", 0) = 1500 /\ financial_analysis.profit_growth_status = "low"
    /\ Get(financial_data, "revenue_growth", 0) = 1500 /\ financial_analysis.revenue_growth_status = "low"
    /\ Get(financial_data, "roe", 0) = 1500 /\ financial_analysis.roe_status = "good"
    /\ Get(financial_data, "gross_margin", 0) = 4000 /\ financial_analysis.gross_margin_status = "good"
    /\ financial_analysis.financial_score = 50 + 10 + 5 + 10 + 7

----------------------------------------------------------------------------
(* The market analyzer on given index histories: probe holds the two
   histories get_stock_index_data returned at lines 429-430. *)

\* index histories: rising, falling and flat over twenty days, rising over
\* twenty-one days after a fall, and histories too short for the 20-day or
\* for the 5-day average
MarketHistories ==
    {RisingIndex,
     [i \in 1..20 |-> IndexRow(i, 3000 - i)],
     [i \in 1..20 |-> IndexRow(i, 3000)],
     [i \in 1..21 |-> IndexRow(i, IF i <= 16 THEN 3100 - i ELSE 3084 + (i - 16))],
     [i \in 1..19 |-> IndexRow(i, 3000 + i)],
     [i \in 1..5 |-> IndexRow(i, 3000 - i)],
     [i \in 1..4 |-> IndexRow(i, 3000)],
     << IndexRow(1, 3000) >>}

InitMarket ==
    /\ pc = "market_input"
    /\ config = SampleConfig
    /\ Unassigned
    /\ probe \in {[sh_index |-> a, sz_index |-> b] : a \in MarketHistories, b \in MarketHistories}

\* lines 427-495 on the two histories
ClassifyMarket ==
    /\ pc = "market_input"
    /\ market_context_analysis' = analyze_market_context(probe.sh_index, probe.sz_index)
    /\ pc' = "market_classified"
    /\ UNCHANGED << probe, config, data_vars, technical_analysis, fund_flow_analysis,
                    financial_analysis, news_analysis, report, analysis_result,
                    send_success, result, calls >>

SpecMarket == InitMarket /\ [][ClassifyMarket]_vars

\* the sum of the last w closes of an index history
SumLast(df, w) == SumSeq([i \in 1..w |-> df[Len(df) - w + i].close])

\* MA5 > MA20 of an index history, both averages being defined: the means of
\* the last 5 and of the last 20 closes compared without rounding
MaAbove(df) == Len(df) >= 20 /\ SumLast(df, 5) * 20 > SumLast(df, 20) * 5
MaBelow(df) == Len(df) >= 20 /\ SumLast(df, 5) * 20 < SumLast(df, 20) * 5

\* C21: when both index histories are non-empty the joint trend is bull iff
\* both indices have MA5 > MA20, bear iff both have MA5 < MA20 and mixed in
\* every other case (equality or an undefined average included), and
\* market_score is 80 for bull, 70 for mixed and 65 for bear.
C21_MarketTrendAndScore ==
    pc = "market_classified" =>
        LET a == market_context_analysis
            bull == MaAbove(probe.sh_index) /\ MaAbove(probe.sz_index)
            bear == MaBelow(probe.sh_index) /\ MaBelow(probe.sz_index)
        IN /\ a.status = "success"
           /\ a.market_trend = "bull" <=> bull
           /\ a.market_trend = "bear" <=> bear
           /\ a.market_trend = "mixed" <=> (~bull /\ ~bear)
           /\ a.market_score = (IF bull THEN 80 ELSE IF bear THEN 65 ELSE 70)

\* C21 witness: one index with MA5 equal to MA20, the other rising: mixed, 70
C21_Witness ==
    /\ pc = "market_classified"
    /\ Len(probe.sh_index) = 20
    /\ SumLast(probe.sh_index, 5) * 20 = SumLast(probe.sh_index, 20) * 5
    /\ MaAbove(probe.sz_index)
    /\ market_context_analysis.market_trend = "mixed"
    /\ market_context_analysis.market_score = 70

----------------------------------------------------------------------------
(* Properties of the news analyzer *)

\* every item of the news list has a title and a content that are strings
NewsReadable ==
    /\ news_data # << >>
    /\ \A i \in 1..Len(news_data) : news_data[i].content # NoText

\* count / total * 100 > x, compared without rounding
ShareAbove(count, total, x) == count * 100 > x * total

\* the sentiment bonus as stated, from the number of positive items
StatedSentimentBonus(count, total) ==
    IF ShareAbove(count, total, 60) THEN 20
    ELSE IF ShareAbove(count, total, 40) THEN 15
    ELSE IF ShareAbove(count, total, 30) THEN 10 ELSE 5

\* C22: for every non-empty news list the overall sentiment is positive iff
\* positive_count / total * 100 > 60, negative iff that does not hold and
\* negative_count / total * 100 > 60, neutral otherwise; exactly 60% is
\* neutral and the two non-neutral outcomes never both apply; the sentiment
\* bonus of the score depends only on the positive ratio (20/15/10/5 by
\* > 60 / > 40 / > 30).
C22_SentimentByRatio ==
    (Called("analyze_news") /\ NewsReadable) =>
        LET a == news_analysis
            total == Len(news_data)
            pos == ShareAbove(a.positive_count, total, 60)
            neg == ShareAbove(a.negative_count, total, 60)
        IN /\ a.status = "success"
           /\ a.news_sentiment = "positive" <=> pos
           /\ a.news_sentiment = "negative" <=> (~pos /\ neg)
           /\ a.news_sentiment = "neutral" <=> (~pos /\ ~neg)
           /\ ~(pos /\ neg)
           /\ a.positive_count * 100 = 60 * total => a.news_sentiment # "positive"
           /\ a.negative_count * 100 = 60 * total => a.news_sentiment = "neutral"
           /\ a.news_score = Clamp(50 + StatedSentimentBonus(a.positive_count, total)
                                   + EventBonus(a.major_events) - EventPenalty(a.major_events))

\* C22 witness: three positive items out of five: exactly 60%, neutral, +15
C22_Witness ==
    /\ Called("analyze_news")
    /\ Len(news_data) = 5
    /\ news_analysis.status = "success"
    /\ news_analysis.positive_count = 3
    /\ news_analysis.positive_ratio = 6000
    /\ news_analysis.news_sentiment = "neutral"
    /\ news_analysis.news_score = 65

\* the title contains one of the eight event keywords
StatedIsEvent(title) ==
    \E kw \in {"huigou", "zengchi", "zhanluehezuo", "yejiyuzeng",
               "jianchi", "susong", "jianguan", "chufa"} : Contains(title, kw)

\* the titles of the news items, in their order
NewsTitles == [i \in 1..Len(news_data) |-> news_data[i].title]

\* the positions of the lines of rep with the given tag
LinesTagged(rep, tag) == {i \in 1..Len(rep) : rep[i].tag = tag}

\* the titles of the bullet lines that directly follow line i of rep
RECURSIVE BulletsAfter(_, _)
BulletsAfter(rep, i) ==
    IF i + 1 <= Len(rep) /\ rep[i + 1].tag = "event"
    THEN << rep[i + 1].title >> \o BulletsAfter(rep, i + 1)
    ELSE << >>

\* the section headed by tag lists the first min(3, len) major events if there
\* are any, and is absent otherwise
ListsFirstThree(rep, tag, major_events) ==
    IF major_events # << >>
    THEN /\ Cardinality(LinesTagged(rep, tag)) = 1
         /\ \A i \in LinesTagged(rep, tag) :
               BulletsAfter(rep, i) = SubSeq(major_events, 1, Min(3, Len(major_events)))
    ELSE LinesTagged(rep, tag) = {}

\* C23: major_events holds, in the order of the news items, the title of every
\* item whose title contains a bullish or bearish event keyword, once each
\* (also when it contains both), and no other title; each of the two places
\* where the report lists major events prints the first min(3, len) of them in
\* that order, and the section appears iff major_events is non-empty.
C23_MajorEventsListed ==
    (Called("analyze_news") /\ NewsReadable) =>
        LET events == news_analysis.major_events IN
        /\ events = SelectSeq(NewsTitles, StatedIsEvent)
        /\ (pc \in {"report_table", "check_analysis"} /\ ~IsGenerationError(report)) =>
              /\ ListsFirstThree(report, "recent_events", events)
              /\ Cardinality(LinesTagged(report, "event")) >= Min(3, Len(events))
        /\ (pc = "check_analysis" /\ ~IsGenerationError(report)) =>
              /\ ListsFirstThree(report, "events_impact", events)
              /\ Cardinality(LinesTagged(report, "event")) = 2 * Min(3, Len(events))

\* C23 witness: six news items, four of them events (one title with both 增持
\* and 减持), and a finished report listing the first three in both places
C23_Witness ==
    /\ pc = "check_analysis"
    /\ ~IsGenerationError(report)
    /\ Len(news_data) = 6
    /\ Len(news_analysis.major_events) = 4
    /\ news_analysis.major_events[3] = {"zengchi", "jianchi"}
    /\ Cardinality(LinesTagged(report, "event")) = 6
    /\ Cardinality(LinesTagged(report, "events_impact")) = 1

----------------------------------------------------------------------------
(* The recent-trading-days table on given provider answers: probe holds what
   the provider answers to the two fetches of lines 913-914. *)

\* daily histories inside the ten-day window: none, one to seven bars in
\* date order, three and six bars delivered newest first
TableDailies ==
    {<< >>, ShortHist}
    \cup {[i \in 1..n |-> Bar(Today - n + i, 10 + i, 100)] : n \in {1, 4, 5, 6, 7}}
    \cup {[i \in 1..6 |-> Bar(Today + 1 - i, 20 - i, 100)]}

\* fund-flow histories: none, today only, the last seven days, two of the
\* last days delivered newest first, an old day only, a table without the
\* main_net_inflow column
TableFlows ==
    {<< >>,
     << FlowRow(Today, 100000, 1, 1) >>,
     [i \in 1..7 |-> FlowRow(Today - 7 + i, (i - 4) * 10000, 1, 1)],
     << FlowRow(Today - 1, -20000, -1, 1), FlowRow(Today - 3, 30000, 1, -1) >>,
     << FlowRow(Today - 20, 500000, 1, 1) >>,
     << FlowRowNoMain(Today) >>}

InitTable ==
    /\ pc = "table_input"
    /\ config = SampleConfig
    /\ Unassigned
    /\ probe \in {[daily_answer |-> d, flow_answer |-> f] :
                    d \in Answers(TableDailies, << >>), f \in Answers(TableFlows, << >>)}

\* the daily and the fund-flow history the composer fetches for its table
RecentDaily == get_stock_daily_data(probe.daily_answer, Today, 10)
RecentFlow == get_fund_flow_data(probe.flow_answer)

\* lines 913-940: the body of the table, or the exception of line 934
RenderTable ==
    /\ pc = "table_input"
    /\ report' = IF TableRaises(RecentDaily, RecentFlow)
                 THEN GenerationError("main_net_inflow")
                 ELSE TableLines(RecentDaily, RecentFlow)
    /\ calls' = << "get_stock_daily_data", "get_fund_flow_data" >>
    /\ pc' = "table_rendered"
    /\ UNCHANGED << probe, config, data_vars, analysis_vars, analysis_result, send_success, result >>

SpecTable == InitTable /\ [][RenderTable]_vars

\* every fund-flow record the composer fetched has the main_net_inflow column
RecentFlowReadable == \A i \in 1..Len(RecentFlow) : HasKey(RecentFlow[i], "main_net_inflow")

\* the row shows the close of a fetched bar of its date, and as fund flow
\* main_net_inflow / 10000 of the fund-flow record of that date, 0 without one
RowAsStated(row) ==
    /\ \E i \in 1..Len(RecentDaily) :
          RecentDaily[i].date = row.date /\ RecentDaily[i].close = row.close
    /\ IF \E j \in 1..Len(RecentFlow) : RecentFlow[j].date = row.date
       THEN \E j \in 1..Len(RecentFlow) :
               /\ RecentFlow[j].date = row.date
               /\ row.fund_flow * 100 = RecentFlow[j].main_net_inflow
       ELSE row.fund_flow = 0

\* C24: for a fetched daily history of n > 0 bars the table has min(5, n)
\* rows, the bars with the latest dates, in strictly descending date order;
\* the fund-flow column of a row is main_net_inflow / 10000 of the fund-flow
\* record of the same date, or 0 when there is none; for an empty daily
\* history the table body is the single line saying that recent data is
\* unavailable.
C24_RecentDaysTable ==
    (pc = "table_rendered" /\ RecentFlowReadable) =>
        IF RecentDaily = << >>
        THEN report = << [tag |-> "no_recent_data"] >>
        ELSE /\ Len(report) = Min(5, Len(RecentDaily))
             /\ \A i \in 1..Len(report) : report[i].tag = "row" /\ RowAsStated(report[i])
             /\ \A i \in 1..Len(report) : \A j \in 1..Len(report) :
                   i < j => report[i].date > report[j].date
             /\ \A k \in 1..Len(RecentDaily) :
                   (\A i \in 1..Len(report) : report[i].date # RecentDaily[k].date) =>
                       \A i \in 1..Len(report) : RecentDaily[k].date < report[i].date

\* C24 witness: seven bars fetched, five rows shown from today backwards, the
\* fund flow of today's record in the first row and 0 in a row without record
C24_Witness ==
    /\ pc = "table_rendered"
    /\ Len(RecentDaily) = 7
    /\ Len(RecentFlow) = 2
    /\ Len(report) = 5
    /\ report[1].tag = "row" /\ report[1].date = Today /\ report[1].fund_flow = 0
    /\ report[2].date = Today - 1 /\ report[2].fund_flow = -200
    /\ report[5].date = Today - 4

----------------------------------------------------------------------------
(* Properties of the order of the calls *)

\* the calls that reach the market data provider
ProviderCalls == {"get_stock_basic_info", "get_stock_realtime_data", "get_stock_daily_data",
                  "get_technical_indicators", "get_fund_flow_data", "get_financial_data",
                  "get_stock_news", "get_stock_index_data"}

OptionalCalls == {"get_technical_indicators", "get_fund_flow_data", "get_financial_data",
                  "get_stock_news", "get_stock_index_data"}

\* the provider calls of the run, in the order they were made
Fetches == SelectSeq(calls, LAMBDA c : c \in ProviderCalls)

MandatoryOrder == << "get_stock_basic_info", "get_stock_realtime_data", "get_stock_daily_data" >>

\* C25: the mandatory sources are fetched in the order basic info, realtime
\* quote, daily history; when one of them is missing no later provider call is
\* made in the run, and no optional source (indicators, fund flow, financials,
\* news, index history) is fetched before all three have been validated.
C25_MandatoryFetchOrder ==
    /\ \A i \in 1..Min(3, Len(Fetches)) : Fetches[i] = MandatoryOrder[i]
    /\ (Len(Fetches) >= 1 /\ ~Truthy(basic_info)) => Len(Fetches) = 1
    /\ (Len(Fetches) >= 2 /\ ~Truthy(realtime_data)) => Len(Fetches) = 2
    /\ (Len(Fetches) >= 3 /\ daily_data = << >>) => Len(Fetches) = 3
    /\ (\E c \in OptionalCalls : Called(c)) =>
          /\ Len(Fetches) > 3
          /\ Truthy(basic_info) /\ Truthy(realtime_data) /\ daily_data # << >>

\* C25 witness: a finished run whose realtime quote was missing: two fetches
C25_Witness ==
    /\ pc = "done"
    /\ Fetches = << "get_stock_basic_info", "get_stock_realtime_data" >>
    /\ Truthy(basic_info) /\ ~Truthy(realtime_data)
    /\ result.status = "error"

\* how often name occurs in the call log
TimesCalled(name) == Cardinality({i \in 1..Len(calls) : calls[i] = name})

\* C26: in every run of main the notification transport is invoked at most
\* once, and only after analyze_stock has returned status "success" with a
\* report; when the environment check or the analysis fails the transport is
\* never invoked, and a false result from the transport is not retried.
C26_TransportAtMostOnce ==
    /\ TimesCalled("smtp") <= 1 /\ TimesCalled("send_stock_analysis_report") <= 1
    /\ Called("send_stock_analysis_report") =>
          /\ analysis_result # None
          /\ analysis_result.status = "success" /\ HasKey(analysis_result, "report")
          /\ Called("generate_stock_analysis_report")
          /\ pc = "done"
    /\ Called("smtp") => calls[Len(calls)] = "smtp" /\ Called("send_stock_analysis_report")
    /\ (pc = "done" /\ result.status = "error") =>
          ~Called("smtp") /\ ~Called("send_stock_analysis_report")
    /\ (pc = "done" /\ result.status = "failed") =>
          /\ TimesCalled("send_stock_analysis_report") = 1
          /\ ~send_success

\* C26 witness: the transport was contacted once, failed, and the run ended
C26_Witness ==
    /\ pc = "done"
    /\ TimesCalled("smtp") = 1
    /\ ~send_success
    /\ result.status = "failed"

\* C27: if analyze_stock returns status "success" (and hence whenever main
\* delivers an email and returns "success"), the report it carries is a fully
\* composed report with the composite score and tier line, never the
\* report-generation error string.
C27_SuccessCarriesComposedReport ==
    /\ analysis_result.status = "success" =>
          /\ ~IsGenerationError(analysis_result.report)
          /\ HasScoreLine(analysis_result.report)
    /\ (pc = "done" /\ result.status = "success") =>
          /\ ~IsGenerationError(analysis_result.report)
          /\ HasScoreLine(analysis_result.report)

----------------------------------------------------------------------------
(* Properties of the composite, continued *)

\* C28: in every report that contains a composite score line the composite is
\* at least 62.75, hence never below 50, and the caution tier (谨慎) does not
\* occur: the report is composed only from successful technical, fund-flow,
\* financial and news analyses, whose sub-scores are at least 72, 65, 62 and
\* 50, with a market sub-score of at least 50.
C28_CompositeFloor ==
    HasScoreLine(report) =>
        /\ ScoreLine(report).overall_score >= 6275
        /\ ScoreLine(report).conclusion # "caution"
        /\ technical_analysis.status = "success" /\ technical_analysis.technical_score >= 72
        /\ fund_flow_analysis.status = "success" /\ fund_flow_analysis.fund_flow_score >= 65
        /\ financial_analysis.status = "success" /\ financial_analysis.financial_score >= 62
        /\ news_analysis.status = "success" /\ news_analysis.news_score >= 50
        /\ HasKey(market_context_analysis, "market_score")
        /\ market_context_analysis.market_score >= 50

\* C28 witness: every sub-score at its floor, the composite is exactly 62.75
C28_Witness ==
    /\ HasScoreLine(report)
    /\ technical_analysis.technical_score = 72
    /\ fund_flow_analysis.fund_flow_score = 65
    /\ financial_analysis.financial_score = 62
    /\ news_analysis.news_score = 50
    /\ market_context_analysis.market_score = 50
    /\ ScoreLine(report).overall_score = 6275
    /\ ScoreLine(report).conclusion = "neutral"

\* the items of the news list with a positive (negative) keyword in the title
\* or in the content
WithPositive == {i \in 1..Len(news_data) : IsPositive(news_data[i])}
WithNegative == {i \in 1..Len(news_data) : IsNegative(news_data[i])}

\* C29: for every non-empty news list each item is classified into exactly one
\* of positive, negative, neutral: the three counts add up to the number of
\* items, positive_ratio + negative_ratio <= 100 and both ratios are in [0, 100].
C29_NewsCountsPartition ==
    (Called("analyze_news") /\ NewsReadable) =>
        LET a == news_analysis IN
        /\ a.positive_count = Cardinality(WithPositive \ WithNegative)
        /\ a.negative_count = Cardinality(WithNegative \ WithPositive)
        /\ a.positive_count + a.negative_count + a.neutral_count = Len(news_data)
        /\ a.positive_count >= 0 /\ a.negative_count >= 0 /\ a.neutral_count >= 0
        /\ a.positive_ratio \in 0..10000 /\ a.negative_ratio \in 0..10000
        /\ a.positive_ratio + a.negative_ratio <= 10000

\* C29 witness: six items, two of each class, one of the neutral ones matching
\* both keyword lists
C29_Witness ==
    /\ Called("analyze_news")
    /\ Len(news_data) = 6
    /\ WithPositive \cap WithNegative # {}
    /\ news_analysis.status = "success"
    /\ news_analysis.positive_count = 2
    /\ news_analysis.negative_count = 2
    /\ news_analysis.neutral_count = 2

----------------------------------------------------------------------------
(* Properties of the daily history *)

\* the table rows of a report
TableRows(rep) == SelectSeq(rep, LAMBDA line : line.tag = "row")

\* the table of rep shows the latest bars of the history df
ShowsLatestBars(rep, df) ==
    /\ LinesTagged(rep, "no_recent_data") = {}
    /\ Len(TableRows(rep)) = Min(5, Len(df))
    /\ \A i \in 1..Len(TableRows(rep)) :
          \E k \in 1..Len(Tail_n(df, 5)) :
             /\ Tail_n(df, 5)[k].date = TableRows(rep)[i].date
             /\ Tail_n(df, 5)[k].close = TableRows(rep)[i].close

\* C30: within one run the latest close the technical analyzer compares with
\* the bands, the IndicatorSet it reads and the bars of the recent-trading-days
\* table all derive from one daily-history snapshot, the one analyze_stock
\* fetched at line 54, also when the provider's answer to the daily-history
\* query changes or becomes empty between the calls of the run.
C30_SingleDailySnapshot ==
    /\ pc = "get_fund_flow" => technical_indicators = get_technical_indicators(daily_data)
    /\ (Called("analyze_technical_indicators") /\ technical_analysis.status = "success") =>
          technical_analysis.current_price = daily_data[Len(daily_data)].close
    /\ (Analyzed /\ analysis_result.status = "success"
        /\ ~IsGenerationError(analysis_result.report)) =>
          ShowsLatestBars(analysis_result.report, daily_data)

====
